---------------------------- MODULE Spec2Model ----------------------------
(***************************************************************************)
(* Projection and viability engine of streamlit_app.py.                    *)
(*                                                                         *)
(* Python floats are modelled as exact rationals [n, d] in lowest terms    *)
(* with d > 0, so every identity below is an identity of real arithmetic;  *)
(* rounding noise of IEEE doubles is outside the model.                    *)
(* Python indices are 0-based; TLA+ sequences are 1-based, so element i of *)
(* a Python list is s[i + 1].                                              *)
(***************************************************************************)
EXTENDS Integers, Sequences, FiniteSets, TLC

VARIABLES
    state,      \* the plan snapshot (st.session_state) an engine call reads
    variation,  \* quantity multiplier passed to the engine calls
    norm,       \* one call of normalize_monthly_series: arguments and result
    sched,      \* one call of schedule_installment_flow on a queue
    md,         \* locals of compute_monthly_details while its month loop runs
    proj,       \* result of compute_projections
    tax,        \* calls of compute_simples_tax
    irr,        \* locals of compute_irr while its Newton loop runs
    metrics,    \* one call of compute_npv, compute_mirr or compute_payback
    be,         \* one call of compute_break_even: arguments and result
    ui          \* the wizard: the project file saved, the step shown

vars == <<state, variation, norm, sched, md, proj, tax, irr, metrics, be, ui>>

-----------------------------------------------------------------------------
(* Exact rational arithmetic *)

Abs(x) == IF x < 0 THEN -x ELSE x

RECURSIVE GCD(_, _)
GCD(a, b) == IF b = 0 THEN a ELSE GCD(b, a % b)

Rat(n, d) ==
    LET s == IF d < 0 THEN -1 ELSE 1
        g == GCD(Abs(n), Abs(d))
    IN  [n |-> (s * n) \div g, d |-> (s * d) \div g]

R(i) == [n |-> i, d |-> 1]
Zero == R(0)
One == R(1)

RNeg(a) == [n |-> -a.n, d |-> a.d]

RAdd(a, b) ==
    LET g == GCD(a.d, b.d)
    IN  Rat(a.n * (b.d \div g) + b.n * (a.d \div g), (a.d \div g) * b.d)

RSub(a, b) == RAdd(a, RNeg(b))

RMul(a, b) ==
    LET g1 == GCD(Abs(a.n), b.d)
        g2 == GCD(Abs(b.n), a.d)
    IN  IF a.n = 0 \/ b.n = 0 THEN Zero
        ELSE [n |-> (a.n \div g1) * (b.n \div g2), d |-> (a.d \div g2) * (b.d \div g1)]

RInv(a) == IF a.n < 0 THEN [n |-> -a.d, d |-> -a.n] ELSE [n |-> a.d, d |-> a.n]

RDiv(a, b) == RMul(a, RInv(b))

\* a < b, by comparing integer parts and then the reciprocals of the
\* fractional parts, so that no product is formed.
RECURSIVE RLt(_, _)
RLt(a, b) ==
    LET fa == a.n \div a.d
        fb == b.n \div b.d
        ra == a.n % a.d
        rb == b.n % b.d
    IN  IF fa # fb THEN fa < fb
        ELSE IF rb = 0 THEN FALSE
        ELSE IF ra = 0 THEN TRUE
        ELSE RLt([n |-> b.d, d |-> rb], [n |-> a.d, d |-> ra])

RLe(a, b) == a = b \/ RLt(a, b)
RMax(a, b) == IF RLt(a, b) THEN b ELSE a
RAbs(a) == [n |-> Abs(a.n), d |-> a.d]

\* Sum of s[lo..hi], split in halves so that the evaluation stays shallow
RECURSIVE RSumRange(_, _, _)
RSumRange(s, lo, hi) ==
    IF lo > hi THEN Zero
    ELSE IF lo = hi THEN s[lo]
    ELSE LET mid == (lo + hi) \div 2
         IN  RAdd(RSumRange(s, lo, mid), RSumRange(s, mid + 1, hi))

\* sum(s)
RSum(s) == RSumRange(s, 1, Len(s))

RECURSIVE RPow(_, _)
RPow(a, k) == IF k = 0 THEN One ELSE RMul(a, RPow(a, k - 1))

Min(a, b) == IF a < b THEN a ELSE b
Max(a, b) == IF a < b THEN b ELSE a

-----------------------------------------------------------------------------
(* Values read from the plan's dictionaries.  A key can hold a number,    *)
(* hold None, or be absent.                                                *)

Num(v) == [t |-> "num", v |-> v]
NoneV == [t |-> "none", v |-> 0]
Absent == [t |-> "absent", v |-> 0]

\* dict.get(key, default)
Get(field, default) == IF field.t = "absent" THEN default ELSE field

\* float(x or 0.0) and int(x or 0): None and 0 both give 0
OrZero(x) == IF x.t = "num" THEN x.v ELSE 0

\* int(x or 1)
OrOne(x) == IF x.t = "num" /\ x.v # 0 THEN x.v ELSE 1

-----------------------------------------------------------------------------
(* The plan snapshot *)

\* init_state's defaults: an empty plan with the given horizon
EmptyPlan(h) ==
    [horizon |-> h,
     revenue |-> <<>>,
     revenue_monthly |-> <<>>,
     costs |-> <<>>,
     variable_expenses |-> <<>>,
     fixed_costs |-> [op |-> <<>>, adm |-> <<>>, sales |-> <<>>],
     fixed_expenses |-> [op |-> <<>>, adm |-> <<>>, sales |-> <<>>],
     investments |-> <<>>,
     financing |-> [amount |-> Absent, rate |-> Absent, years |-> Absent],
     calculate_tax |-> FALSE,
     tax_annex |-> "I"]

\* A product as wizard_step2 stores it
Product(price, qty, prazo, parcelas) ==
    [price |-> price, qty |-> qty, prazo |-> prazo, prazo_parcelas |-> parcelas]

\* The dictionary {} read in place of a product that does not exist
NoProduct == Product(Absent, Absent, Absent, Absent)

Entry(price, qty) == [price |-> price, qty |-> qty]

\* state.get("revenue_monthly", {}).get(i, {}).get("monthly") or []
\* revenue_monthly[i + 1] is the list stored under key i; <<>> when the key
\* is not set.
MonthlyList(st, i) ==
    IF i + 1 \in DOMAIN st.revenue_monthly THEN st.revenue_monthly[i + 1] ELSE <<>>

\* A direct-cost or variable-expense item (wizard_step3): "prazo_pct" is the
\* credit percent, "term" the key older projects used for it
CostItem(qty, unit, prazo_pct, term, parcelas) ==
    [qty |-> qty, unit |-> unit, prazo_pct |-> prazo_pct, term |-> term,
     prazo_parcelas |-> parcelas]

\* A fixed cost or fixed expense item (wizard_step4)
FixedItem(value, prazo_pct, parcelas) ==
    [value |-> value, prazo_pct |-> prazo_pct, prazo_parcelas |-> parcelas]

\* An investment item (wizard_step5)
Asset(value, month) == [value |-> value, month |-> month]

\* for cat in ["op", "adm", "sales"]
Cats == <<"op", "adm", "sales">>

\* state.get(name, {}).get(i, []) for the per-product dictionaries
ItemsOf(dict, i) == IF i + 1 \in DOMAIN dict THEN dict[i + 1] ELSE <<>>

-----------------------------------------------------------------------------
(* normalize_monthly_series *)

\* horizon = max(int(horizon_years or 0), 1)
NormHorizon(horizon_years) == Max(OrZero(horizon_years), 1)

\* The iterations with idx >= len(monthly_list): each appends the same
\* {"price": last_price, "qty": last_qty} and leaves last_price, last_qty as
\* they are
NormPad(normalized, target_months, price, qty) ==
    normalized \o [k \in 1..(target_months - Len(normalized)) |->
                     [price |-> price, qty |-> qty]]

\* Variant that pads with zeros instead of carrying the last value forward
RECURSIVE NormLoopZeroPad(_, _, _, _, _, _)
NormLoopZeroPad(monthly_list, target_months, idx, last_price, last_qty, normalized) ==
    IF idx >= target_months THEN normalized
    ELSE IF idx < Len(monthly_list)
    THEN LET entry == monthly_list[idx + 1]
             price == OrZero(Get(entry.price, Num(last_price)))
             qty == OrZero(Get(entry.qty, Num(last_qty)))
         IN  NormLoopZeroPad(monthly_list, target_months, idx + 1, price, qty,
                             Append(normalized, [price |-> price, qty |-> qty]))
    ELSE NormPad(normalized, target_months, 0, 0)

\* for idx in range(target_months), from iteration idx on
RECURSIVE NormLoop(_, _, _, _, _, _)
NormLoop(monthly_list, target_months, idx, last_price, last_qty, normalized) ==
    IF idx >= target_months THEN normalized
    ELSE IF idx < Len(monthly_list)
    THEN LET entry == monthly_list[idx + 1]
             price == OrZero(Get(entry.price, Num(last_price)))
             qty == OrZero(Get(entry.qty, Num(last_qty)))
         IN  NormLoop(monthly_list, target_months, idx + 1, price, qty,
                      Append(normalized, [price |-> price, qty |-> qty]))
    ELSE NormPad(normalized, target_months, last_price, last_qty)

normalize_monthly_series(st, product_index, horizon_years) ==
    LET horizon == NormHorizon(horizon_years)
        target_months == horizon * 12
        product == IF product_index < Len(st.revenue)
                   THEN st.revenue[product_index + 1] ELSE NoProduct
        monthly_list == MonthlyList(st, product_index)
        base_price == OrZero(product.price)
        base_qty == OrZero(product.qty)
    IN  NormLoop(monthly_list, target_months, 0, base_price, base_qty, <<>>)

-----------------------------------------------------------------------------
(* Installment scheduler: pop_scheduled_amount, schedule_installment_flow *)

\* Variant that removes the head without appending the trailing zero
pop_scheduled_amount_no_pad(schedule) ==
    LET s1 == IF schedule = <<>> THEN <<Zero>> ELSE schedule
    IN  [amount |-> Head(s1), schedule |-> Tail(s1)]

\* pop_scheduled_amount: the amount returned and the list as the call leaves it
pop_scheduled_amount(schedule) ==
    LET s1 == IF schedule = <<>> THEN <<Zero>> ELSE schedule
    IN  [amount |-> Head(s1), schedule |-> Append(Tail(s1), Zero)]

\* Variant that appends a zero on every pass, needed or not
ExtendToAlways(schedule, month_offset) ==
    schedule \o [k \in 1..Max(month_offset - Len(schedule) + 1, 1) |-> Zero]

\* schedule.extend([0.0] * (month_offset - len(schedule) + 1))
ExtendTo(schedule, month_offset) ==
    IF month_offset >= Len(schedule)
    THEN schedule \o [k \in 1..(month_offset - Len(schedule) + 1) |-> Zero]
    ELSE schedule

\* Variant whose first installment lands on the head of the queue
RECURSIVE InstallmentLoopFromHead(_, _, _, _)
InstallmentLoopFromHead(schedule, each, month_offset, n_inst) ==
    IF month_offset > n_inst THEN schedule
    ELSE LET ext == ExtendTo(schedule, month_offset)
         IN  InstallmentLoopFromHead(
                 [ext EXCEPT ![month_offset] = RAdd(ext[month_offset], each)],
                 each, month_offset + 1, n_inst)

\* for month_offset in range(1, n_inst + 1): schedule[month_offset] += each
RECURSIVE InstallmentLoop(_, _, _, _)
InstallmentLoop(schedule, each, month_offset, n_inst) ==
    IF month_offset > n_inst THEN schedule
    ELSE LET ext == ExtendTo(schedule, month_offset)
         IN  InstallmentLoop(
                 [ext EXCEPT ![month_offset + 1] = RAdd(ext[month_offset + 1], each)],
                 each, month_offset + 1, n_inst)

\* Variant that takes the credit percent as it comes
ClampPctNone(pct_prazo) == RDiv(pct_prazo, R(100))

\* pct = min(max(float(pct_prazo or 0.0), 0.0), 100.0) / 100.0
ClampPct(pct_prazo) ==
    LET hi == IF RLt(pct_prazo, Zero) THEN Zero ELSE pct_prazo
        lo == IF RLt(R(100), hi) THEN R(100) ELSE hi
    IN  RDiv(lo, R(100))

\* n_inst = max(int(installments or 1), 1)
ClampInst(installments) == Max(IF installments = 0 THEN 1 ELSE installments, 1)

\* Variant that returns the whole amount as immediate cash and still queues
\* the term share
schedule_installment_flow_all_cash(schedule, amount, pct_prazo, installments) ==
    LET pct == ClampPct(pct_prazo)
        n_inst == ClampInst(installments)
        term_total == RMul(amount, pct)
    IN  [immediate |-> amount,
         schedule |-> IF RLt(Zero, term_total)
                      THEN InstallmentLoop(schedule, RDiv(term_total, R(n_inst)), 1, n_inst)
                      ELSE schedule]

\* schedule_installment_flow: the immediate amount returned and the list as
\* the call leaves it
schedule_installment_flow(schedule, amount, pct_prazo, installments) ==
    LET amt == amount
        pct == ClampPct(pct_prazo)
        n_inst == ClampInst(installments)
        immediate == RMul(amt, RSub(One, pct))
        term_total == RMul(amt, pct)
    IN  [immediate |-> immediate,
         schedule |-> IF RLt(Zero, term_total)
                      THEN InstallmentLoop(schedule, RDiv(term_total, R(n_inst)), 1, n_inst)
                      ELSE schedule]

-----------------------------------------------------------------------------
(* Simples Nacional: SIMPLIES_THRESHOLDS, SIMPLIES_TABLES, compute_simples_tax *)

SIMPLIES_THRESHOLDS == <<180000, 360000, 720000, 1800000, 3600000, 4800000>>

\* Variant whose Annex I deduction of the second bracket is Annex III's
SimpliesDeductionsSlip ==
    [I |-> <<0, 9360, 13860, 22500, 87300, 378000>>,
     II |-> <<0, 5940, 13860, 22500, 85500, 720000>>,
     III |-> <<0, 9360, 17640, 35640, 125640, 648000>>,
     IV |-> <<0, 8100, 12420, 39780, 183780, 828000>>,
     V |-> <<0, 4500, 9900, 17100, 62100, 540000>>]

\* SIMPLIES_TABLES[annex]["rates"], in thousandths
SimpliesRates ==
    [I |-> <<40, 73, 95, 107, 143, 190>>,
     II |-> <<45, 78, 100, 112, 147, 300>>,
     III |-> <<60, 112, 135, 160, 210, 330>>,
     IV |-> <<45, 90, 102, 140, 220, 330>>,
     V |-> <<155, 180, 195, 205, 230, 305>>]

\* SIMPLIES_TABLES[annex]["deductions"]
SimpliesDeductions ==
    [I |-> <<0, 5940, 13860, 22500, 87300, 378000>>,
     II |-> <<0, 5940, 13860, 22500, 85500, 720000>>,
     III |-> <<0, 9360, 17640, 35640, 125640, 648000>>,
     IV |-> <<0, 8100, 12420, 39780, 183780, 828000>>,
     V |-> <<0, 4500, 9900, 17100, 62100, 540000>>]

Annexes == {"I", "II", "III", "IV", "V"}

\* Variant of the bracket search with an exclusive upper threshold
RECURSIVE BracketLoopExclusive(_, _, _)
BracketLoopExclusive(revenue, j, idx) ==
    IF j >= Len(SIMPLIES_THRESHOLDS) THEN idx
    ELSE IF RLt(revenue, R(SIMPLIES_THRESHOLDS[j + 1])) THEN j
    ELSE BracketLoopExclusive(revenue, j + 1, j)

\* for j, limit in enumerate(SIMPLIES_THRESHOLDS): the value idx ends with
RECURSIVE BracketLoop(_, _, _)
BracketLoop(revenue, j, idx) ==
    IF j >= Len(SIMPLIES_THRESHOLDS) THEN idx
    ELSE IF RLe(revenue, R(SIMPLIES_THRESHOLDS[j + 1])) THEN j
    ELSE BracketLoop(revenue, j + 1, j)

\* Variant that charges the nominal rate on the revenue
SimplesTaxNominal(revenue, annex) ==
    IF RLe(revenue, Zero) \/ annex \notin Annexes
    THEN [effective_rate |-> Zero, tax_amount |-> Zero, idx |-> -1]
    ELSE LET idx == BracketLoop(revenue, 0, 0)
             nominal_rate == Rat(SimpliesRates[annex][idx + 1], 1000)
             deduction == R(SimpliesDeductions[annex][idx + 1])
             effective_rate ==
                 RMax(RDiv(RSub(RMul(revenue, nominal_rate), deduction), revenue), Zero)
         IN  [effective_rate |-> effective_rate,
              tax_amount |-> RMul(revenue, nominal_rate),
              idx |-> idx]

\* compute_simples_tax; idx is the bracket the call used (-1 when it
\* returned before the search)
compute_simples_tax(revenue, annex) ==
    IF RLe(revenue, Zero) \/ annex \notin Annexes
    THEN [effective_rate |-> Zero, tax_amount |-> Zero, idx |-> -1]
    ELSE LET idx == BracketLoop(revenue, 0, 0)
             nominal_rate == Rat(SimpliesRates[annex][idx + 1], 1000)
             deduction == R(SimpliesDeductions[annex][idx + 1])
             effective_rate ==
                 RMax(RDiv(RSub(RMul(revenue, nominal_rate), deduction), revenue), Zero)
         IN  [effective_rate |-> effective_rate,
              tax_amount |-> RMul(revenue, effective_rate),
              idx |-> idx]

-----------------------------------------------------------------------------
(* compute_projections *)

\* max(int(state.get("horizon", 1) or 0), 1)
PlanHorizon(st) == Max(OrZero(Get(st.horizon, Num(1))), 1)

\* Sum of f over the months of monthly_data that fall in year y, with
\* year_idx = min(m_idx // months_per_year, n_years - 1)
YearTotal(monthly_data, months_per_year, n_years, y, f) ==
    RSum([k \in 1..Len(monthly_data) |->
            IF Min((k - 1) \div months_per_year, n_years - 1) = y
            THEN f[k] ELSE Zero])

\* product_costs += float(qty or 0) * float(unit or 0) over a product's items
UnitCostOrZero(items) ==
    RSum([k \in 1..Len(items) |-> R(OrZero(items[k].qty) * OrZero(items[k].unit))])

\* fixed_expenses_month: every category of fixed_costs and fixed_expenses
FixedMonthOrZero(st) ==
    RSum([c \in 1..Len(Cats) |->
            RAdd(RSum([k \in 1..Len(st.fixed_costs[Cats[c]]) |->
                         R(OrZero(st.fixed_costs[Cats[c]][k].value))]),
                 RSum([k \in 1..Len(st.fixed_expenses[Cats[c]]) |->
                         R(OrZero(st.fixed_expenses[Cats[c]][k].value))]))])

\* Annual annuity payment of the loan
AnnuityPayment(loan_amount, rate, years) ==
    IF RLt(Zero, loan_amount) /\ years > 0
    THEN IF rate = Zero
         THEN RDiv(loan_amount, R(years))
         ELSE RDiv(RMul(loan_amount, rate),
                   RSub(One, RInv(RPow(RAdd(One, rate), years))))
    ELSE Zero

\* loan_payment_year: the payment is due in years 1..years
LoanPaymentYear(t, years, payment) == IF t <= years THEN payment ELSE Zero

\* Variant that also subtracts the loan payment from the accrual profit
ProjectionRowLoanInProfit(t, revenue, cost, fixed_expenses, loan_payment_year, tax_amount) ==
    [Ano |-> t, Receita |-> revenue, Custos |-> cost, CustosFixos |-> fixed_expenses,
     PagamentoEmprestimo |-> loan_payment_year, Tributos |-> tax_amount,
     Lucro |-> RSub(RSub(RSub(RSub(revenue, cost), fixed_expenses), tax_amount),
                    loan_payment_year)]

\* The row of an operating year: profit = revenue - cost - fixed - tax
ProjectionRow(t, revenue, cost, fixed_expenses, loan_payment_year, tax_amount) ==
    [Ano |-> t, Receita |-> revenue, Custos |-> cost, CustosFixos |-> fixed_expenses,
     PagamentoEmprestimo |-> loan_payment_year, Tributos |-> tax_amount,
     Lucro |-> RSub(RSub(RSub(revenue, cost), fixed_expenses), tax_amount)]

\* Variant that scales the year's revenue by the variation twice
ProjRevenueTwice(rev_per_year, y, v) == RMul(RMul(rev_per_year[y + 1], v), v)

\* revenue = rev_per_year[y] * variation
ProjRevenue(rev_per_year, y, v) == RMul(rev_per_year[y + 1], v)

compute_projections(st, v) ==
    LET n_years == PlanHorizon(st)
        nprod == Len(st.revenue)
        monthly == [i \in 1..nprod |-> normalize_monthly_series(st, i - 1, Num(n_years))]
        mpy(i) == LET months_total == Len(monthly[i])
                      q == months_total \div n_years
                  IN  IF q = 0 THEN 12 ELSE q
        qty_per_product_per_year ==
            [i \in 1..nprod |->
               [y \in 1..n_years |->
                  YearTotal(monthly[i], mpy(i), n_years, y - 1,
                            [k \in 1..Len(monthly[i]) |-> R(monthly[i][k].qty)])]]
        rev_per_year ==
            [y \in 1..n_years |->
               RSum([i \in 1..nprod |->
                       YearTotal(monthly[i], mpy(i), n_years, y - 1,
                                 [k \in 1..Len(monthly[i]) |->
                                    R(monthly[i][k].price * monthly[i][k].qty)])])]
        cost_per_unit_list == [i \in 1..nprod |-> UnitCostOrZero(ItemsOf(st.costs, i - 1))]
        variable_cost_per_unit_list ==
            [i \in 1..nprod |-> UnitCostOrZero(ItemsOf(st.variable_expenses, i - 1))]
        fixed_expenses_annual == RMul(FixedMonthOrZero(st), R(12))
        investments_total ==
            RSum([k \in 1..Len(st.investments) |-> R(OrZero(st.investments[k].value))])
        loan_amount == R(OrZero(st.financing.amount))
        rate == RDiv(R(OrZero(st.financing.rate)), R(100))
        years == OrZero(st.financing.years)
        payment == AnnuityPayment(loan_amount, rate, years)
        revenue(y) == ProjRevenue(rev_per_year, y, v)
        cost(y) ==
            RSum([i \in 1..nprod |->
                    RAdd(RMul(cost_per_unit_list[i],
                              RMul(qty_per_product_per_year[i][y + 1], v)),
                         RMul(variable_cost_per_unit_list[i],
                              RMul(qty_per_product_per_year[i][y + 1], v)))])
        tax_amount(y) ==
            IF st.calculate_tax
            THEN compute_simples_tax(revenue(y), st.tax_annex).tax_amount
            ELSE Zero
        row(t) ==
            IF t = 0
            THEN [Ano |-> 0, Receita |-> Zero, Custos |-> Zero, CustosFixos |-> Zero,
                  PagamentoEmprestimo |-> Zero, Tributos |-> Zero, Lucro |-> Zero]
            ELSE ProjectionRow(t, revenue(t - 1), cost(t - 1), fixed_expenses_annual,
                               LoanPaymentYear(t, years, payment), tax_amount(t - 1))
        projections == [k \in 1..(n_years + 1) |-> row(k - 1)]
    IN  [projections |-> projections,
         cashflows |-> [k \in 1..(n_years + 1) |->
                          IF k = 1 THEN RSub(loan_amount, investments_total)
                          ELSE RSub(projections[k].Lucro,
                                    projections[k].PagamentoEmprestimo)],
         investments_total |-> investments_total]

-----------------------------------------------------------------------------
(* compute_monthly_details *)

\* float(d.get(key, 0.0)): the default for an absent key, the number
\* otherwise.  float(None) raises TypeError; MdRaises collects those cases.
FloatGet(x) == IF x.t = "num" THEN x.v ELSE 0

IsNone(x) == x.t = "none"

\* Some float(...) of the call is applied to None outside a try block
\* (lines 674, 690, 692, 695, 696, 728, 771, 779)
MdRaises(st) ==
    \/ \E i \in 1..Len(st.revenue) :
          \/ \E k \in 1..Len(ItemsOf(st.costs, i - 1)) :
                \/ IsNone(ItemsOf(st.costs, i - 1)[k].qty)
                \/ IsNone(ItemsOf(st.costs, i - 1)[k].unit)
          \/ \E k \in 1..Len(ItemsOf(st.variable_expenses, i - 1)) :
                \/ IsNone(ItemsOf(st.variable_expenses, i - 1)[k].qty)
                \/ IsNone(ItemsOf(st.variable_expenses, i - 1)[k].unit)
    \/ \E c \in 1..Len(Cats) :
          \/ \E k \in 1..Len(st.fixed_costs[Cats[c]]) :
                IsNone(st.fixed_costs[Cats[c]][k].value)
          \/ \E k \in 1..Len(st.fixed_expenses[Cats[c]]) :
                IsNone(st.fixed_expenses[Cats[c]][k].value)
    \/ IsNone(st.financing.amount)
    \/ IsNone(st.financing.rate)
    \/ \E k \in 1..Len(st.investments) : IsNone(st.investments[k].value)

\* total_direct += float(qty) * float(unit) over a product's cost items
UnitCostFloat(items) ==
    RSum([k \in 1..Len(items) |-> R(FloatGet(items[k].qty) * FloatGet(items[k].unit))])

\* The same sum inside try/except: an item holding None adds 0.0
UnitCostTry(items) ==
    RSum([k \in 1..Len(items) |->
            IF IsNone(items[k].qty) \/ IsNone(items[k].unit) THEN Zero
            ELSE R(FloatGet(items[k].qty) * FloatGet(items[k].unit))])

\* fixed_expenses_total_monthly
FixedMonthFloat(st) ==
    RSum([c \in 1..Len(Cats) |->
            RAdd(RSum([k \in 1..Len(st.fixed_costs[Cats[c]]) |->
                         R(FloatGet(st.fixed_costs[Cats[c]][k].value))]),
                 RSum([k \in 1..Len(st.fixed_expenses[Cats[c]]) |->
                         R(FloatGet(st.fixed_expenses[Cats[c]][k].value))]))])

\* eff_rates: the effective rate of each year's revenue when tax is enabled
EffRates(st, v, horizon, normalized_monthlies) ==
    [y \in 1..horizon |->
       IF st.calculate_tax
       THEN compute_simples_tax(
                RSum([i \in 1..Len(st.revenue) |->
                        YearTotal(normalized_monthlies[i], 12, horizon, y - 1,
                                  [k \in 1..Len(normalized_monthlies[i]) |->
                                     RMul(R(normalized_monthlies[i][k].price
                                            * normalized_monthlies[i][k].qty), v)])]),
                st.tax_annex).effective_rate
       ELSE Zero]

\* investments_monthly: minus the value of every asset acquired in month m
InvestmentsMonthly(st, months_total) ==
    [mm \in 1..months_total |->
       RNeg(RSum([k \in 1..Len(st.investments) |->
                    IF OrZero(st.investments[k].month) = mm - 1
                    THEN R(FloatGet(st.investments[k].value)) ELSE Zero]))]

\* Names of the two payable queues in the log; a receivable queue is named by
\* its product index
VarQ == -1
FixQ == -2

QueueOf(d, q) ==
    IF q = VarQ THEN d.variable_payable_schedule
    ELSE IF q = FixQ THEN d.fixed_payable_schedule
    ELSE d.revenue_receivable_schedule[q + 1]

WithQueue(d, q, schedule) ==
    IF q = VarQ THEN [d EXCEPT !.variable_payable_schedule = schedule]
    ELSE IF q = FixQ THEN [d EXCEPT !.fixed_payable_schedule = schedule]
    ELSE [d EXCEPT !.revenue_receivable_schedule[q + 1] = schedule]

\* pop_scheduled_amount(queue q) in month d.m; the call is recorded in d.log
DoPop(d, q) ==
    LET r == pop_scheduled_amount(QueueOf(d, q))
    IN  [amount |-> r.amount,
         d |-> [WithQueue(d, q, r.schedule) EXCEPT
                  !.log = Append(@, [month |-> d.m, kind |-> "pop", q |-> q,
                                     amount |-> r.amount, immediate |-> Zero,
                                     added |-> Zero, n |-> 0])]]

\* schedule_installment_flow(queue q, ...) in month d.m; the call is recorded
\* in d.log with the total it added to the queue
DoSched(d, q, amount, pct_prazo, installments) ==
    LET before == QueueOf(d, q)
        r == schedule_installment_flow(before, amount, pct_prazo, installments)
    IN  [immediate |-> r.immediate,
         d |-> [WithQueue(d, q, r.schedule) EXCEPT
                  !.log = Append(@, [month |-> d.m, kind |-> "sched", q |-> q,
                                     amount |-> amount, immediate |-> r.immediate,
                                     added |-> RSub(RSum(r.schedule), RSum(before)),
                                     n |-> ClampInst(installments)])]]

\* for cost_item in product_costs / for var_item in product_vars: schedule
\* each item's amount into the variable payable queue, adding the immediate
\* parts to var_cost_cash_m
RECURSIVE ScheduleVarItems(_, _, _, _)
ScheduleVarItems(d, items, k, qty_m) ==
    IF k > Len(items) THEN d
    ELSE LET it == items[k]
             item_amount == RMul(R(FloatGet(it.qty) * FloatGet(it.unit)), qty_m)
             r == DoSched(d, VarQ, item_amount,
                          R(OrZero(Get(it.prazo_pct, Get(it.term, Num(0))))),
                          OrOne(Get(it.prazo_parcelas, Num(1))))
         IN  ScheduleVarItems(
                 [r.d EXCEPT !.var_cost_cash_m = RAdd(@, r.immediate)],
                 items, k + 1, qty_m)

\* for item in fixed_costs[cat] / fixed_expenses[cat]: schedule each item's
\* value into the fixed payable queue
RECURSIVE ScheduleFixedItems(_, _, _)
ScheduleFixedItems(d, items, k) ==
    IF k > Len(items) THEN d
    ELSE LET it == items[k]
             r == DoSched(d, FixQ, R(OrZero(it.value)),
                          R(OrZero(Get(it.prazo_pct, Num(0)))),
                          OrOne(Get(it.prazo_parcelas, Num(1))))
         IN  ScheduleFixedItems(
                 [r.d EXCEPT !.fixed_cost_cash_m = RAdd(@, r.immediate)],
                 items, k + 1)

\* for cat in ["op", "adm", "sales"]: fixed_costs[cat], then fixed_expenses[cat]
RECURSIVE ScheduleFixedCats(_, _, _)
ScheduleFixedCats(d, st, c) ==
    IF c > Len(Cats) THEN d
    ELSE ScheduleFixedCats(
             ScheduleFixedItems(
                 ScheduleFixedItems(d, st.fixed_costs[Cats[c]], 1),
                 st.fixed_expenses[Cats[c]], 1),
             st, c + 1)

\* Variant of the receipt lines that schedules the month's revenue before
\* popping the amount due
ReceiptScheduleFirst(d, idx, rev_i_m, prod) ==
    LET s == DoSched(d, idx, rev_i_m, R(OrZero(prod.prazo)),
                     OrOne(Get(prod.prazo_parcelas, Num(1))))
        p == DoPop(s.d, idx)
    IN  [p.d EXCEPT !.cash_receipt_m = RAdd(RAdd(@, p.amount), s.immediate)]

\* cash_receipt_m += pop_scheduled_amount(queue);
\* cash_receipt_m += schedule_installment_flow(queue, rev_i_m, prazo, parcelas)
Receipt(d, idx, rev_i_m, prod) ==
    LET p == DoPop(d, idx)
        s == DoSched(p.d, idx, rev_i_m, R(OrZero(prod.prazo)),
                     OrOne(Get(prod.prazo_parcelas, Num(1))))
    IN  [s.d EXCEPT !.cash_receipt_m = RAdd(RAdd(@, p.amount), s.immediate)]

\* One row of rows_month
\* Variant in which the queue of fixed payables outlives the call that
\* filled it
FixedPayableScheduleKept ==
    IF "fixed_payable_schedule" \in DOMAIN md
    THEN md.fixed_payable_schedule ELSE <<Zero>>

\* fixed_payable_schedule = [0.0]: every call creates its queues anew
FixedPayableSchedule == <<Zero>>

\* Variant that keeps charging the monthly payment after the loan term
FinCfMonthNoTerm(m, years, loan_inflow_m, loan_payment_ann) ==
    RSub(loan_inflow_m, IF years > 0 THEN RDiv(loan_payment_ann, R(12)) ELSE Zero)

\* fin_cf_m: the month's loan inflow less, within the loan term, one twelfth
\* of the annual payment
FinCfMonth(m, years, loan_inflow_m, loan_payment_ann) ==
    IF (m \div 12) < years
    THEN RSub(loan_inflow_m,
              IF years > 0 THEN RDiv(loan_payment_ann, R(12)) ELSE Zero)
    ELSE loan_inflow_m

MonthRow(d, tax_m, fin_cf_m, invest_cf_m) ==
    LET oper_cf_m == RSub(RSub(RSub(d.cash_receipt_m, d.var_cost_cash_m),
                               d.fixed_cost_cash_m), tax_m)
        fixed_cost_m == d.fixed_expenses_total_monthly
    IN  [Mes |-> d.m + 1,
         Receita |-> d.revenue_m,
         ReceitaCaixa |-> d.cash_receipt_m,
         CustoVariavel |-> d.var_cost_m,
         CustoFixo |-> fixed_cost_m,
         Tributos |-> tax_m,
         Lucro |-> RSub(RSub(RSub(d.revenue_m, d.var_cost_m), fixed_cost_m), tax_m),
         CFOperacional |-> oper_cf_m,
         CFFinanceiro |-> fin_cf_m,
         CFInvestimento |-> invest_cf_m,
         CFTotal |-> RAdd(RAdd(oper_cf_m, fin_cf_m), invest_cf_m)]

\* slice_df[column].sum() over the months of year yr
AnnualRow(rows, yr) ==
    LET slice == {k \in 1..Len(rows) : yr * 12 < k /\ k <= yr * 12 + 12}
        col(f) == RSum([k \in 1..Len(rows) |-> IF k \in slice THEN f[k] ELSE Zero])
    IN  [Ano |-> yr + 1,
         Receita |-> col([k \in 1..Len(rows) |-> rows[k].Receita]),
         ReceitaCaixa |-> col([k \in 1..Len(rows) |-> rows[k].ReceitaCaixa]),
         CustoVariavel |-> col([k \in 1..Len(rows) |-> rows[k].CustoVariavel]),
         CustoFixo |-> col([k \in 1..Len(rows) |-> rows[k].CustoFixo]),
         Tributos |-> col([k \in 1..Len(rows) |-> rows[k].Tributos]),
         Lucro |-> col([k \in 1..Len(rows) |-> rows[k].Lucro]),
         CFOperacional |-> col([k \in 1..Len(rows) |-> rows[k].CFOperacional]),
         CFFinanceiro |-> col([k \in 1..Len(rows) |-> rows[k].CFFinanceiro]),
         CFInvestimento |-> col([k \in 1..Len(rows) |-> rows[k].CFInvestimento]),
         CFTotal |-> col([k \in 1..Len(rows) |-> rows[k].CFTotal])]

-----------------------------------------------------------------------------
(* compute_npv, compute_irr *)

\* npv += cf / ((1 + r) ** t) over the flows; r = -1 is outside its domain
compute_npv(cashflows, discount_rate) ==
    RSum([k \in 1..Len(cashflows) |->
            RDiv(R(cashflows[k]), RPow(RAdd(One, discount_rate), k - 1))])

\* for _ in range(100)
IrrIterations == 100

\* guess: float = 0.1
IrrGuess == Rat(1, 10)

\* abs(new_rate - rate) < 1e-7
IrrTolerance == Rat(1, 10000000)

\* A division of the pass divides by zero.  With 1 + rate = 0 the flow at
\* t = 0 has denom = 0 ** 0 = 1, so the guard "denom != 0" lets
\* -t * cf / (denom * (1 + rate)) divide by 1 * 0: ZeroDivisionError.
IrrDividesByZero(cashflows, rate) ==
    Len(cashflows) >= 1 /\ RAdd(One, rate) = Zero

\* f after the inner loop, for 1 + rate # 0
IrrF(cashflows, rate) == compute_npv(cashflows, rate)

\* df after the inner loop, for 1 + rate # 0
IrrDf(cashflows, rate) ==
    RSum([k \in 1..Len(cashflows) |->
            RDiv(R(-(k - 1) * cashflows[k]),
                 RMul(RPow(RAdd(One, rate), k - 1), RAdd(One, rate)))])

-----------------------------------------------------------------------------
(* compute_npv's failure, compute_mirr, compute_payback *)

\* cf / ((1 + r) ** t) divides by zero at t = 1 when 1 + r = 0 (at t = 0 the
\* divisor is 0 ** 0 = 1): ZeroDivisionError leaves compute_npv
NpvRaises(cashflows, discount_rate) ==
    Len(cashflows) >= 2 /\ RAdd(One, discount_rate) = Zero

\* pv_neg += cf / ((1 + finance_rate) ** t) divides by zero for a negative
\* flow at t >= 1 when 1 + finance_rate = 0
MirrRaises(cashflows, finance_rate) ==
    /\ Len(cashflows) >= 2
    /\ RAdd(One, finance_rate) = Zero
    /\ \E k \in 2..Len(cashflows) : cashflows[k] < 0

\* Present value of the negative flows at finance_rate
MirrPvNeg(cashflows, finance_rate) ==
    RSum([k \in 1..Len(cashflows) |->
            IF cashflows[k] < 0
            THEN RDiv(R(cashflows[k]), RPow(RAdd(One, finance_rate), k - 1))
            ELSE Zero])

\* Future value of the positive flows at reinvest_rate
MirrFvPos(cashflows, reinvest_rate) ==
    RSum([k \in 1..Len(cashflows) |->
            IF cashflows[k] > 0
            THEN RMul(R(cashflows[k]),
                      RPow(RAdd(One, reinvest_rate), Len(cashflows) - k))
            ELSE Zero])

\* The float base ** (1 / n) - 1, kept as its radicand and the root's index
RootMinusOne(base, n) == [t |-> "root", base |-> base, n |-> n]

\* compute_mirr, for arguments on which it does not raise
compute_mirr(cashflows, finance_rate, reinvest_rate) ==
    LET n == Len(cashflows) - 1
        pv_neg == MirrPvNeg(cashflows, finance_rate)
        fv_pos == MirrFvPos(cashflows, reinvest_rate)
    IN  IF n <= 0 THEN NoneV
        ELSE IF pv_neg = Zero THEN NoneV
        ELSE RootMinusOne(RDiv(fv_pos, RNeg(pv_neg)), n)

\* Variant of the first loop that stops only on a positive running sum
RECURSIVE PaybackLoopStrict(_, _, _)
PaybackLoopStrict(cashflows, i, cumulative) ==
    IF i >= Len(cashflows) THEN NoneV
    ELSE LET c == RAdd(cumulative, R(cashflows[i + 1]))
         IN  IF RLt(Zero, c) THEN Num(i)
             ELSE PaybackLoopStrict(cashflows, i + 1, c)

\* for i, cf in enumerate(cashflows): cumulative += cf; stop at cumulative >= 0
RECURSIVE PaybackLoop(_, _, _)
PaybackLoop(cashflows, i, cumulative) ==
    IF i >= Len(cashflows) THEN NoneV
    ELSE LET c == RAdd(cumulative, R(cashflows[i + 1]))
         IN  IF RLe(Zero, c) THEN Num(i)
             ELSE PaybackLoop(cashflows, i + 1, c)

\* Variant of the second loop that compounds the flows instead of
\* discounting them
RECURSIVE DiscountedPaybackLoopCompounded(_, _, _, _)
DiscountedPaybackLoopCompounded(cashflows, discount_rate, i, cumulative_d) ==
    IF i >= Len(cashflows) THEN NoneV
    ELSE LET c == RAdd(cumulative_d,
                       RMul(R(cashflows[i + 1]), RPow(RAdd(One, discount_rate), i)))
         IN  IF RLe(Zero, c) THEN Num(i)
             ELSE DiscountedPaybackLoopCompounded(cashflows, discount_rate, i + 1, c)

\* The second loop: cumulative_d += cf / ((1 + discount_rate) ** i)
RECURSIVE DiscountedPaybackLoop(_, _, _, _)
DiscountedPaybackLoop(cashflows, discount_rate, i, cumulative_d) ==
    IF i >= Len(cashflows) THEN NoneV
    ELSE LET c == RAdd(cumulative_d,
                       RDiv(R(cashflows[i + 1]), RPow(RAdd(One, discount_rate), i)))
         IN  IF RLe(Zero, c) THEN Num(i)
             ELSE DiscountedPaybackLoop(cashflows, discount_rate, i + 1, c)

\* The second loop reaches i = 1 with 1 + discount_rate = 0 and divides by zero
PaybackRaises(cashflows, discount_rate) ==
    /\ Len(cashflows) >= 2
    /\ RAdd(One, discount_rate) = Zero
    /\ cashflows[1] < 0

\* compute_payback, for arguments on which it does not raise
compute_payback(cashflows, discount_rate) ==
    [payback |-> PaybackLoop(cashflows, 0, Zero),
     discounted_payback |-> DiscountedPaybackLoop(cashflows, discount_rate, 0, Zero)]

-----------------------------------------------------------------------------
(* compute_break_even *)

\* float(c.get("qty", 0.0)) * float(c.get("unit", 0.0)) at line 592 is
\* applied to None: TypeError leaves compute_break_even
BeRaises(st) ==
    \E i \in 1..Len(st.revenue) :
        \E k \in 1..Len(ItemsOf(st.costs, i - 1)) :
            \/ IsNone(ItemsOf(st.costs, i - 1)[k].qty)
            \/ IsNone(ItemsOf(st.costs, i - 1)[k].unit)

\* horizon = int(state.get("horizon", 1) or 1)
BeHorizon(st) == OrOne(Get(st.horizon, Num(1)))

\* months_per_year = months // horizon if horizon else 12, with
\* months = horizon * 12: 12 for every horizon
BeMonthsPerYear(horizon) == IF horizon > 0 THEN (horizon * 12) \div horizon ELSE 12

\* Variant that leaves the tax out of the contribution margin
BeMarginNoTax(revenue, variable_cost, tax_amount) == RSub(revenue, variable_cost)

\* mc = revenue - variable_cost - tax_amount
BeMargin(revenue, variable_cost, tax_amount) ==
    RSub(RSub(revenue, variable_cost), tax_amount)

\* Variant that forgets the variation in a product's year-1 revenue
BeProductRevenueFlat(monthly, months_per_year, v) ==
    RSum([m \in 1..Min(months_per_year, Len(monthly)) |->
            RMul(R(monthly[m].price), R(monthly[m].qty))])

\* rev += m_price * m_qty over the first months_per_year months, with
\* m_qty = qty * variation
BeProductRevenue(monthly, months_per_year, v) ==
    RSum([m \in 1..Min(months_per_year, Len(monthly)) |->
            RMul(R(monthly[m].price), RMul(R(monthly[m].qty), v))])

\* qty_sum += m_qty over the same months
BeProductQty(monthly, months_per_year, v) ==
    RSum([m \in 1..Min(months_per_year, Len(monthly)) |->
            RMul(R(monthly[m].qty), v)])

\* Variant whose unit margin leaves the variable expense per unit out
BeBreakdownDirectOnly(rev_i, qty_i, total_revenue_y1, revenue_be, cost_unit, var_unit) ==
    LET share == IF RLt(Zero, total_revenue_y1)
                 THEN RDiv(rev_i, total_revenue_y1) ELSE Zero
        rev_be_i == IF revenue_be.t = "num" THEN RMul(share, revenue_be.v) ELSE Zero
        avg_price == IF RLt(Zero, qty_i) THEN RDiv(rev_i, qty_i) ELSE Zero
        qty_be == IF RLt(Zero, avg_price) THEN RDiv(rev_be_i, avg_price) ELSE Zero
        mc_unit == RSub(avg_price, cost_unit)
    IN  [share |-> share, revenue_be |-> rev_be_i, quantity_be |-> qty_be,
         price |-> avg_price, cost_unit |-> cost_unit, var_unit |-> var_unit,
         mc_unit |-> mc_unit, mc_total |-> RMul(mc_unit, qty_i)]

\* One entry of product_breakdown
BeBreakdown(rev_i, qty_i, total_revenue_y1, revenue_be, cost_unit, var_unit) ==
    LET share == IF RLt(Zero, total_revenue_y1)
                 THEN RDiv(rev_i, total_revenue_y1) ELSE Zero
        rev_be_i == IF revenue_be.t = "num" THEN RMul(share, revenue_be.v) ELSE Zero
        avg_price == IF RLt(Zero, qty_i) THEN RDiv(rev_i, qty_i) ELSE Zero
        qty_be == IF RLt(Zero, avg_price) THEN RDiv(rev_be_i, avg_price) ELSE Zero
        mc_unit == RSub(avg_price, RAdd(cost_unit, var_unit))
    IN  [share |-> share, revenue_be |-> rev_be_i, quantity_be |-> qty_be,
         price |-> avg_price, cost_unit |-> cost_unit, var_unit |-> var_unit,
         mc_unit |-> mc_unit, mc_total |-> RMul(mc_unit, qty_i)]

\* The figures compute_break_even derives from year 1 of the projections and
\* from the products' year-1 revenues and quantities
BeResult(st, year1, per_prod_rev, per_prod_qty) ==
    LET revenue == year1.Receita
        variable_cost == year1.Custos
        fixed_costs == year1.CustosFixos
        tax_amount == year1.Tributos
        mc == BeMargin(revenue, variable_cost, tax_amount)
        mc_percent == IF RLt(Zero, revenue) THEN RDiv(mc, revenue) ELSE Zero
        revenue_be == IF RLt(Zero, mc_percent)
                      THEN Num(RDiv(fixed_costs, mc_percent)) ELSE NoneV
        total_revenue_y1 == RSum(per_prod_rev)
    IN  [mc |-> mc,
         mc_percent |-> mc_percent,
         fixed_costs |-> fixed_costs,
         revenue_be |-> revenue_be,
         product_breakdown |->
             [i \in 1..Len(st.revenue) |->
                BeBreakdown(per_prod_rev[i], per_prod_qty[i], total_revenue_y1,
                            revenue_be,
                            UnitCostFloat(ItemsOf(st.costs, i - 1)),
                            UnitCostTry(ItemsOf(st.variable_expenses, i - 1)))],
         total_revenue_y1 |-> total_revenue_y1]

\* compute_break_even, for a state on which it does not raise; the local
\* total_revenue_y1 is kept with the result.  The projections and the
\* per-product lists are computed once, as the code does, and handed on.
compute_break_even(st, v) ==
    LET horizon == BeHorizon(st)
        months_per_year == BeMonthsPerYear(horizon)
        per_prod_rev(monthly) ==
            [i \in 1..Len(st.revenue) |->
                BeProductRevenue(monthly[i], months_per_year, v)]
        per_prod_qty(monthly) ==
            [i \in 1..Len(st.revenue) |->
                BeProductQty(monthly[i], months_per_year, v)]
        results ==
            {BeResult(st, projections[2], per_prod_rev(monthly), per_prod_qty(monthly)) :
                projections \in {compute_projections(st, v).projections},
                monthly \in {[i \in 1..Len(st.revenue) |->
                                normalize_monthly_series(st, i - 1, Num(horizon))]}}
    IN  CHOOSE r \in results : TRUE

-----------------------------------------------------------------------------
(* Values of the variables of the components a specification leaves alone *)

NormIdle == [pc |-> "idle"]
SchedIdle == [pc |-> "idle"]
MdIdle == [pc |-> "idle"]
ProjIdle == [pc |-> "idle"]
TaxIdle == [pc |-> "idle"]
IrrIdle == [pc |-> "idle"]
MetricsIdle == [pc |-> "idle"]
BeIdle == [pc |-> "idle"]
UiIdle == [pc |-> "idle"]

-----------------------------------------------------------------------------
(* SpecNorm: normalize_monthly_series applied to bounded plans *)

MaxHorizon == 2
MaxCfgLen == 2

HorizonInputs == {NoneV, Num(-1), Num(0)} \cup {Num(h) : h \in 1..MaxHorizon}

NormEntries ==
    {Entry(Num(5), Num(7)), Entry(Num(0), Num(0)),
     Entry(Absent, Num(3)), Entry(NoneV, Absent)}

\* A configured list longer than one year, as wizard_step2 leaves behind
\* when the horizon is shortened afterwards
LongList == [i \in 1..13 |-> Entry(Num(i), Num(2 * i))]

NormLists ==
    UNION {[1..k -> NormEntries] : k \in 0..MaxCfgLen} \cup {LongList}

NormPlans ==
    {[EmptyPlan(Num(1)) EXCEPT
        !.revenue = <<Product(bp, bq, Num(0), Num(1)),
                      Product(Num(20), Num(4), Num(0), Num(1))>>,
        !.revenue_monthly = <<ml>>] :
     bp \in {Num(10), Absent}, bq \in {Num(100), NoneV}, ml \in NormLists}

InitNorm ==
    /\ state \in NormPlans
    /\ variation = One
    /\ norm \in [pc : {"ready"}, product_index : 0..2,
                 horizon_years : HorizonInputs, normalized : {<<>>}]
    /\ sched = SchedIdle
    /\ md = MdIdle
    /\ proj = ProjIdle
    /\ tax = TaxIdle
    /\ irr = IrrIdle
    /\ metrics = MetricsIdle
    /\ be = BeIdle
    /\ ui = UiIdle

NormalizeCall ==
    /\ norm.pc = "ready"
    /\ norm' = [norm EXCEPT
                  !.pc = "done",
                  !.normalized = normalize_monthly_series(
                                     state, norm.product_index, norm.horizon_years)]
    /\ UNCHANGED <<state, variation, sched, md, proj, tax, irr, metrics, be, ui>>

NextNorm == NormalizeCall

SpecNorm == InitNorm /\ [][NextNorm]_vars

\* C1: the normalized series has exactly max(horizon, 1) * 12 entries (a
\* zero, missing or below-1 horizon counting as 1); entry i carries the
\* numbers of the configured entry i when one exists, and otherwise repeats
\* entry i - 1, or the product's base price/qty when i = 0.
C1_NormalizedSeries ==
    norm.pc = "done" =>
        LET out == norm.normalized
            hy == norm.horizon_years
            h == IF hy.t = "num" /\ hy.v >= 1 THEN hy.v ELSE 1
            ml == MonthlyList(state, norm.product_index)
            known == norm.product_index < Len(state.revenue)
            prod == IF known THEN state.revenue[norm.product_index + 1] ELSE NoProduct
            base == [price |-> IF prod.price.t = "num" THEN prod.price.v ELSE 0,
                     qty |-> IF prod.qty.t = "num" THEN prod.qty.v ELSE 0]
        IN  /\ Len(out) = h * 12
            /\ \A i \in 1..(h * 12) :
                 IF i <= Len(ml)
                 THEN /\ ml[i].price.t = "num" => out[i].price = ml[i].price.v
                      /\ ml[i].qty.t = "num" => out[i].qty = ml[i].qty.v
                 ELSE out[i] = IF i = 1 THEN base ELSE out[i - 1]

\* A short configured list ending in non-zero numbers was padded to a year
\* under a horizon below 1, and the last month still carries those numbers.
C1_Witness ==
    /\ norm.pc = "done"
    /\ norm.horizon_years = Num(0)
    /\ Len(MonthlyList(state, norm.product_index)) = 1
    /\ Len(norm.normalized) = 12
    /\ norm.normalized[12] = [price |-> 5, qty |-> 7]

\* C20: normalize_monthly_series never raises, and a configured monthly
\* entry whose price or qty field is missing yields 0 for that field in the
\* returned series.
C20_MissingFieldZero ==
    /\ norm.pc \in {"ready", "done"}
    /\ norm.pc = "done" =>
         LET out == norm.normalized
             ml == MonthlyList(state, norm.product_index)
         IN  \A i \in 1..Min(Len(ml), Len(out)) :
                 /\ ml[i].price.t = "absent" => out[i].price = 0
                 /\ ml[i].qty.t = "absent" => out[i].qty = 0

-----------------------------------------------------------------------------
(* SpecSched: the two scheduler primitives applied to bounded queues *)

MaxInst == 3

SchedQueues == {<<>>, <<Zero>>, <<R(5)>>, <<R(5), R(7)>>, <<Zero, R(2), Zero, R(9)>>}
SchedAmounts == {R(-100), Zero, R(1), R(100), Rat(1, 3)}
SchedPcts == {R(-10), Zero, R(30), R(50), R(100), R(150)}

InitSched ==
    /\ state = EmptyPlan(Num(1))
    /\ variation = One
    /\ norm = NormIdle
    /\ sched \in [pc : {"ready"}, schedule : SchedQueues, before : {<<>>},
                  amount : SchedAmounts, pct_prazo : SchedPcts,
                  installments : -1..MaxInst, returned : {Zero}]
    /\ md = MdIdle
    /\ proj = ProjIdle
    /\ tax = TaxIdle
    /\ irr = IrrIdle
    /\ metrics = MetricsIdle
    /\ be = BeIdle
    /\ ui = UiIdle

\* One call of schedule_installment_flow on the queue
ScheduleCall ==
    /\ sched.pc = "ready"
    /\ LET r == schedule_installment_flow(sched.schedule, sched.amount,
                                          sched.pct_prazo, sched.installments)
       IN  sched' = [sched EXCEPT !.pc = "scheduled", !.before = sched.schedule,
                                  !.schedule = r.schedule, !.returned = r.immediate]
    /\ UNCHANGED <<state, variation, norm, md, proj, tax, irr, metrics, be, ui>>

\* One call of pop_scheduled_amount on the queue
PopCall ==
    /\ sched.pc \in {"ready", "scheduled"}
    /\ LET r == pop_scheduled_amount(sched.schedule)
       IN  sched' = [sched EXCEPT !.pc = "popped", !.before = sched.schedule,
                                  !.schedule = r.schedule, !.returned = r.amount]
    /\ UNCHANGED <<state, variation, norm, md, proj, tax, irr, metrics, be, ui>>

NextSched == ScheduleCall \/ PopCall

SpecSched == InitSched /\ [][NextSched]_vars

\* C2: for every amount, every credit percent in [0, 100] and every
\* installment count >= 1, the immediate value returned by one call of
\* schedule_installment_flow plus the total it added to the queue equals the
\* amount.
C2_Conservation ==
    (/\ sched.pc = "scheduled"
     /\ RLe(Zero, sched.pct_prazo) /\ RLe(sched.pct_prazo, R(100))
     /\ sched.installments >= 1)
    => RAdd(sched.returned, RSub(RSum(sched.schedule), RSum(sched.before)))
         = sched.amount

\* The credit share, installment count and term amount of the call that
\* sched records, as the claims about the scheduler state them
SchedPct ==
    IF RLt(sched.pct_prazo, Zero) THEN Zero
    ELSE IF RLt(R(100), sched.pct_prazo) THEN One
    ELSE RDiv(sched.pct_prazo, R(100))
SchedCount == IF sched.installments < 1 THEN 1 ELSE sched.installments
SchedTerm == RMul(sched.amount, SchedPct)
SchedBefore(k) == IF k <= Len(sched.before) THEN sched.before[k] ELSE Zero

\* C21: with term = amount * pct > 0, schedule_installment_flow adds exactly
\* term / installmentCount to each of queue[1..installmentCount], extending
\* the queue with zeros as needed, leaves queue[0] and every entry beyond
\* installmentCount unchanged, and returns amount * (1 - pct).
C21_InstallmentPlacement ==
    (sched.pc = "scheduled" /\ RLt(Zero, SchedTerm)) =>
        /\ Len(sched.schedule) = Max(Len(sched.before), SchedCount + 1)
        /\ \A k \in 1..Len(sched.schedule) :
             sched.schedule[k] =
                 IF k >= 2 /\ k <= SchedCount + 1
                 THEN RAdd(SchedBefore(k), RDiv(SchedTerm, R(SchedCount)))
                 ELSE SchedBefore(k)
        /\ sched.returned = RMul(sched.amount, RSub(One, SchedPct))

\* Two installments of 15 placed into a queue of four: the head and the
\* fourth entry keep their amounts
C21_Witness ==
    /\ sched.pc = "scheduled"
    /\ sched.before = <<Zero, R(2), Zero, R(9)>>
    /\ sched.amount = R(100)
    /\ sched.pct_prazo = R(30)
    /\ sched.installments = 2
    /\ sched.schedule = <<Zero, R(17), R(15), R(9)>>
    /\ sched.returned = R(70)

\* C22: pop_scheduled_amount returns the former queue[0], shifts every
\* remaining entry one position toward the head and appends one trailing
\* zero, so a non-empty queue keeps its length and its total decreases by
\* exactly the returned amount; on an empty queue it returns 0 and leaves the
\* queue as a single zero.
C22_PopShift ==
    sched.pc = "popped" =>
        IF sched.before = <<>>
        THEN sched.returned = Zero /\ sched.schedule = <<Zero>>
        ELSE /\ sched.returned = sched.before[1]
             /\ Len(sched.schedule) = Len(sched.before)
             /\ \A k \in 1..(Len(sched.before) - 1) :
                  sched.schedule[k] = sched.before[k + 1]
             /\ sched.schedule[Len(sched.schedule)] = Zero
             /\ RSum(sched.schedule) = RSub(RSum(sched.before), sched.returned)

\* The head 5 of a two-entry queue was popped and 7 moved to the head
C22_Witness ==
    /\ sched.pc = "popped"
    /\ sched.before = <<R(5), R(7)>>
    /\ sched.schedule = <<R(7), Zero>>
    /\ sched.returned = R(5)

\* C23: schedule_installment_flow treats a credit percent below 0 as 0 and
\* above 100 as 100, treats an installment count below 1 (or missing) as 1,
\* and for an amount of 0 returns 0 and leaves the queue unchanged.
C23_ClampedInputs ==
    sched.pc = "scheduled" =>
        /\ RLt(sched.pct_prazo, Zero) =>
              sched.returned = sched.amount /\ sched.schedule = sched.before
        /\ RLt(R(100), sched.pct_prazo) =>
              /\ sched.returned = Zero
              /\ RLt(Zero, sched.amount) =>
                    RSub(RSum(sched.schedule), RSum(sched.before)) = sched.amount
        /\ (sched.installments < 1 /\ RLt(Zero, SchedTerm)) =>
              /\ Len(sched.schedule) = Max(Len(sched.before), 2)
              /\ sched.schedule[2] = RAdd(SchedBefore(2), SchedTerm)
              /\ RSub(RSum(sched.schedule), RSum(sched.before)) = SchedTerm
        /\ sched.amount = Zero =>
              sched.returned = Zero /\ sched.schedule = sched.before

\* A call with 150% credit and a count of -1 on an empty queue: nothing is
\* immediate and the whole amount is one installment due next
C23_Witness ==
    /\ sched.pc = "scheduled"
    /\ sched.pct_prazo = R(150)
    /\ sched.installments = -1
    /\ sched.amount = R(100)
    /\ sched.before = <<>>
    /\ sched.schedule = <<Zero, R(100)>>
    /\ sched.returned = Zero

-----------------------------------------------------------------------------
(* SpecTax: compute_simples_tax called on revenues at, above and between   *)
(* the thresholds                                                          *)

\* How far above a threshold "just above" is
Step == 1000

ThresholdSet == {SIMPLIES_THRESHOLDS[j] : j \in 1..Len(SIMPLIES_THRESHOLDS)}

TaxRevenues ==
    {R(-5), Zero, Rat(1, 2), R(100000), R(5000000)}
        \cup {R(t) : t \in ThresholdSet} \cup {R(t + Step) : t \in ThresholdSet}

InitTax ==
    /\ state = EmptyPlan(Num(1))
    /\ variation = One
    /\ norm = NormIdle
    /\ sched = SchedIdle
    /\ md = MdIdle
    /\ proj = ProjIdle
    /\ tax \in [pc : {"ready"}, revenue : TaxRevenues, annex : Annexes \cup {"VI"},
                effective_rate : {Zero}, tax_amount : {Zero}, idx : {-1},
                calls : {0}, last_revenue : {Zero}, last_rate : {Zero}]
    /\ irr = IrrIdle
    /\ metrics = MetricsIdle
    /\ be = BeIdle
    /\ ui = UiIdle

\* One call of compute_simples_tax
TaxCall ==
    /\ tax.pc = "ready"
    /\ LET r == compute_simples_tax(tax.revenue, tax.annex)
       IN  tax' = [tax EXCEPT !.pc = "done", !.calls = tax.calls + 1,
                              !.effective_rate = r.effective_rate,
                              !.tax_amount = r.tax_amount, !.idx = r.idx]
    /\ UNCHANGED <<state, variation, norm, sched, md, proj, irr, metrics, be, ui>>

\* The caller asks again for a higher revenue under the same annex
TaxRaise ==
    /\ tax.pc = "done"
    /\ tax.calls = 1
    /\ \E rev \in TaxRevenues :
         /\ RLt(tax.revenue, rev)
         /\ tax' = [tax EXCEPT !.pc = "ready", !.revenue = rev,
                               !.last_revenue = tax.revenue,
                               !.last_rate = tax.effective_rate]
    /\ UNCHANGED <<state, variation, norm, sched, md, proj, irr, metrics, be, ui>>

NextTax == TaxCall \/ TaxRaise

SpecTax == InitTax /\ [][NextTax]_vars

\* The revenue moved from threshold number j to just above it
CrossedThreshold(j) ==
    /\ tax.pc = "done"
    /\ tax.calls = 2
    /\ tax.annex \in Annexes
    /\ tax.last_revenue = R(SIMPLIES_THRESHOLDS[j])
    /\ tax.revenue = R(SIMPLIES_THRESHOLDS[j] + Step)

\* C7 as stated: crossing any of the thresholds 180k, 360k, 720k, 1.8M, 3.6M
\* upward never lowers the effective rate.
C7_MonotoneAllThresholds ==
    \A j \in 1..5 : CrossedThreshold(j) => RLe(tax.last_rate, tax.effective_rate)

\* C7 amended: crossing any of the thresholds 180k, 360k, 720k, 1.8M upward
\* never lowers the effective rate.
C7_MonotoneLowerThresholds ==
    \A j \in 1..4 : CrossedThreshold(j) => RLe(tax.last_rate, tax.effective_rate)

\* The revenue crossed 1.8M under Annex III and the rate rose.
C7_Witness ==
    /\ CrossedThreshold(4)
    /\ tax.annex = "III"
    /\ RLt(tax.last_rate, tax.effective_rate)

\* The bracket the text of the claim selects: the first whose upper
\* threshold is >= revenue, the last one when there is none
FirstBracketAtLeast(revenue) ==
    LET ok == {j \in 0..5 : RLe(revenue, R(SIMPLIES_THRESHOLDS[j + 1]))}
    IN  IF ok = {} THEN 5 ELSE CHOOSE j \in ok : \A k \in ok : j <= k

\* C8: for revenue > 0 and a known annex the call uses the bracket whose
\* upper threshold is the first one >= revenue, the last bracket when the
\* revenue exceeds every threshold; revenue 180000 under Annex I uses bracket
\* 0 and yields the rate 0.04.
C8_BracketSelection ==
    (tax.pc = "done" /\ RLt(Zero, tax.revenue) /\ tax.annex \in Annexes) =>
        /\ tax.idx = FirstBracketAtLeast(tax.revenue)
        /\ (tax.revenue = R(180000) /\ tax.annex = "I") =>
              /\ tax.idx = 0
              /\ SimpliesRates["I"][1] = 40
              /\ SimpliesDeductions["I"][1] = 0
              /\ tax.effective_rate = Rat(4, 100)

\* Revenue exactly 180000 was taxed under Annex I.
C8_Witness ==
    /\ tax.pc = "done"
    /\ tax.revenue = R(180000)
    /\ tax.annex = "I"
    /\ tax.idx = 0

\* C9: the effective rate is (revenue * nominalRate - deduction) / revenue
\* floored at 0, the tax amount is revenue * effectiveRate, neither is
\* negative, and revenue <= 0 or an unknown annex gives (0, 0).
C9_EffectiveRate ==
    tax.pc = "done" =>
        IF RLe(tax.revenue, Zero) \/ tax.annex \notin Annexes
        THEN tax.effective_rate = Zero /\ tax.tax_amount = Zero
        ELSE LET j == FirstBracketAtLeast(tax.revenue)
                 gross == RSub(RMul(tax.revenue, Rat(SimpliesRates[tax.annex][j + 1], 1000)),
                               R(SimpliesDeductions[tax.annex][j + 1]))
             IN  /\ RMul(tax.effective_rate, tax.revenue) = RMax(gross, Zero)
                 /\ tax.tax_amount = RMul(tax.revenue, tax.effective_rate)
                 /\ RLe(Zero, tax.effective_rate)
                 /\ RLe(Zero, tax.tax_amount)

\* A revenue in the fourth bracket was taxed with a non-zero deduction.
C9_Witness ==
    /\ tax.pc = "done"
    /\ tax.revenue = R(720000 + Step)
    /\ tax.annex = "II"
    /\ tax.idx = 3
    /\ RLt(Zero, tax.tax_amount)
    /\ RLt(tax.effective_rate, Rat(112, 1000))

-----------------------------------------------------------------------------
(* SpecEngine: wizard_step7 calls compute_projections and then             *)
(* compute_monthly_details on one plan; the month loop of the latter runs  *)
(* one step at a time.                                                     *)

EnginePcts == {0, 50, 100}

\* What the plan holds besides its first product
\*   0: nothing
\*   1: a monthly table, a second product, cost, variable-expense and fixed items
\*   2: as 1, with investments, a one-year loan at 10% and Simples Annex I
\*   3: as 1, with an investment in month 1 and one in month 13, a two-year
\*      loan at 0% and no tax
EnginePlan(h, prazo, parcelas, bundle) ==
    LET p0 == Product(Num(10), Num(100), Num(prazo), Num(parcelas))
        p1 == Product(Num(20), Num(3), Num(prazo), Num(2))
        base == [EmptyPlan(h) EXCEPT !.revenue = <<p0>>]
        items == [base EXCEPT
                    !.revenue = <<p0, p1>>,
                    !.revenue_monthly =
                        <<<<Entry(Num(10), Num(50)), Entry(Num(12), Num(80))>>>>,
                    !.costs = <<<<CostItem(Num(2), Num(3), Num(50), Absent, Num(2))>>>>,
                    !.variable_expenses =
                        <<<<>>, <<CostItem(Num(1), Num(4), Absent, Num(100), Num(1))>>>>,
                    !.fixed_costs.op = <<FixedItem(Num(500), Num(100), Num(2))>>,
                    !.fixed_expenses.adm = <<FixedItem(Num(120), Num(0), Num(1))>>]
    IN  CASE bundle = 0 -> base
          [] bundle = 1 -> items
          [] bundle = 2 -> [items EXCEPT
                              !.investments = <<Asset(Num(1000), Num(0)),
                                                Asset(Num(600), Num(3))>>,
                              !.financing = [amount |-> Num(1200), rate |-> Num(10),
                                             years |-> Num(1)],
                              !.calculate_tax = TRUE]
          [] bundle = 3 -> [items EXCEPT
                              !.investments = <<Asset(Num(700), Num(1)),
                                                Asset(Num(400), Num(13))>>,
                              !.financing = [amount |-> Num(1200), rate |-> Num(0),
                                             years |-> Num(2)]]

EnginePlans ==
    {EnginePlan(Num(h), prazo, parcelas, bundle) :
        h \in 0..MaxHorizon, prazo \in EnginePcts,
        parcelas \in 1..MaxInst, bundle \in 0..3}

InitEngine ==
    /\ state \in EnginePlans
    /\ variation \in {One, Rat(11, 10)}
    /\ norm = NormIdle
    /\ sched = SchedIdle
    /\ md = [pc |-> "ready"]
    /\ proj = [pc |-> "ready"]
    /\ tax = TaxIdle
    /\ irr = IrrIdle
    /\ metrics = MetricsIdle
    /\ be = BeIdle
    /\ ui = UiIdle

\* projections, cashflows, _ = compute_projections(st.session_state, variation)
ProjCall ==
    /\ proj.pc = "ready"
    /\ LET r == compute_projections(state, variation)
       IN  proj' = [pc |-> "done", projections |-> r.projections,
                    cashflows |-> r.cashflows,
                    investments_total |-> r.investments_total]
    /\ UNCHANGED <<state, variation, norm, sched, md, tax, irr, metrics, be, ui>>

\* compute_monthly_details up to the start of its month loop (lines 660-738)
MdStart ==
    /\ proj.pc = "done"
    /\ md.pc = "ready"
    /\ md' =
         IF MdRaises(state) THEN [pc |-> "raised"]
         ELSE
         LET horizon == PlanHorizon(state)
             nprod == Len(state.revenue)
             normalized_monthlies ==
                 [i \in 1..nprod |-> normalize_monthly_series(state, i - 1, Num(horizon))]
             loan_amount == R(FloatGet(state.financing.amount))
             rate == RDiv(R(FloatGet(state.financing.rate)), R(100))
             years == OrZero(state.financing.years)
         IN  [pc |-> "month",
              m |-> 0,
              horizon |-> horizon,
              months_total |-> horizon * 12,
              normalized_monthlies |-> normalized_monthlies,
              cost_per_unit_list |->
                  [i \in 1..nprod |-> UnitCostFloat(ItemsOf(state.costs, i - 1))],
              var_cost_per_unit_list |->
                  [i \in 1..nprod |-> UnitCostTry(ItemsOf(state.variable_expenses, i - 1))],
              fixed_expenses_total_monthly |-> FixedMonthFloat(state),
              loan_amount |-> loan_amount,
              years |-> years,
              loan_payment_ann |-> AnnuityPayment(loan_amount, rate, years),
              eff_rates |-> EffRates(state, variation, horizon, normalized_monthlies),
              investments_monthly |-> InvestmentsMonthly(state, horizon * 12),
              revenue_receivable_schedule |-> [i \in 1..nprod |-> <<Zero>>],
              variable_payable_schedule |-> <<Zero>>,
              fixed_payable_schedule |-> FixedPayableSchedule,
              rows_month |-> <<>>,
              rows_annual |-> <<>>,
              idx |-> 0,
              revenue_m |-> Zero,
              var_cost_m |-> Zero,
              cash_receipt_m |-> Zero,
              var_cost_cash_m |-> Zero,
              fixed_cost_cash_m |-> Zero,
              log |-> <<>>,
              call |-> IF "call" \in DOMAIN md THEN md.call + 1 ELSE 1,
              previous |-> IF "rows_month" \in DOMAIN md
                           THEN <<md.rows_month, md.rows_annual>> ELSE <<>>]
    /\ UNCHANGED <<state, variation, norm, sched, proj, tax, irr, metrics, be, ui>>

\* Top of the month loop (lines 740-748): the two payable queues are popped
MonthBegin ==
    /\ md.pc = "month"
    /\ md.m < md.months_total
    /\ LET pv == DoPop(md, VarQ)
           pf == DoPop(pv.d, FixQ)
       IN  md' = [pf.d EXCEPT
                    !.revenue_m = Zero,
                    !.var_cost_m = Zero,
                    !.cash_receipt_m = Zero,
                    !.var_cost_cash_m = pv.amount,
                    !.fixed_cost_cash_m = pf.amount,
                    !.idx = 0,
                    !.pc = IF Len(state.revenue) = 0 THEN "fixed" ELSE "product"]
    /\ UNCHANGED <<state, variation, norm, sched, proj, tax, irr, metrics, be, ui>>

\* One pass of the product loop (lines 749-785)
ProductStep ==
    /\ md.pc = "product"
    /\ LET idx == md.idx
           prod == state.revenue[idx + 1]
           m_data == md.normalized_monthlies[idx + 1][md.m + 1]
           qty_m == RMul(R(m_data.qty), variation)
           price_m == R(m_data.price)
           rev_i_m == RMul(price_m, qty_m)
           var_cost_item_m ==
               RMul(RAdd(md.cost_per_unit_list[idx + 1],
                         md.var_cost_per_unit_list[idx + 1]), qty_m)
           d1 == [md EXCEPT !.revenue_m = RAdd(@, rev_i_m),
                            !.var_cost_m = RAdd(@, var_cost_item_m)]
           d2 == Receipt(d1, idx, rev_i_m, prod)
           d3 == ScheduleVarItems(d2, ItemsOf(state.costs, idx), 1, qty_m)
           d4 == ScheduleVarItems(d3, ItemsOf(state.variable_expenses, idx), 1, qty_m)
       IN  md' = [d4 EXCEPT
                    !.idx = idx + 1,
                    !.pc = IF idx + 1 = Len(state.revenue) THEN "fixed" ELSE "product"]
    /\ UNCHANGED <<state, variation, norm, sched, proj, tax, irr, metrics, be, ui>>

\* Rest of the month (lines 786-836): fixed items are scheduled and the
\* month's row is appended
MonthEnd ==
    /\ md.pc = "fixed"
    /\ LET d1 == ScheduleFixedCats(md, state, 1)
           year_idx == Min(md.m \div 12, md.horizon - 1)
           tax_m == IF state.calculate_tax
                    THEN RMul(d1.revenue_m, md.eff_rates[year_idx + 1])
                    ELSE Zero
           loan_inflow == IF md.m = 0 /\ RLt(Zero, md.loan_amount)
                          THEN md.loan_amount ELSE Zero
           fin_cf_m == FinCfMonth(md.m, md.years, loan_inflow, md.loan_payment_ann)
           invest_cf_m == md.investments_monthly[md.m + 1]
       IN  md' = [d1 EXCEPT
                    !.rows_month = Append(@, MonthRow(d1, tax_m, fin_cf_m, invest_cf_m)),
                    !.m = md.m + 1,
                    !.pc = IF md.m + 1 = md.months_total THEN "annual" ELSE "month"]
    /\ UNCHANGED <<state, variation, norm, sched, proj, tax, irr, metrics, be, ui>>

\* Aggregation into annual rows and return (lines 837-860)
MdFinish ==
    /\ md.pc = "annual"
    /\ md' = [md EXCEPT
                !.rows_annual = [y \in 1..md.horizon |-> AnnualRow(md.rows_month, y - 1)],
                !.pc = "done"]
    /\ UNCHANGED <<state, variation, norm, sched, proj, tax, irr, metrics, be, ui>>

NextEngine == ProjCall \/ MdStart \/ MonthBegin \/ ProductStep \/ MonthEnd \/ MdFinish

SpecEngine == InitEngine /\ [][NextEngine]_vars

\* The positions compute_monthly_details passes through
EngineTypeOK ==
    md.pc \in {"ready", "raised", "month", "product", "fixed", "annual", "done"}

\* The months whose row has been appended, and the calls the log holds for
\* month mm, in program order
LastMonth == Len(md.rows_month) - 1
EventsOf(mm) == SelectSeq(md.log, LAMBDA e : e.month = mm)
EngineQueues == {VarQ, FixQ} \cup (0..(Len(state.revenue) - 1))

\* The installments that fall due in month mm on queue q if the installment
\* placed at queue[offset] in month m is the one due in month m + offset
DueByOffset(q, mm) ==
    RSum([k \in 1..Len(md.log) |->
            LET e == md.log[k]
            IN  IF e.kind = "sched" /\ e.q = q
                   /\ 1 <= mm - e.month /\ mm - e.month <= e.n
                THEN RDiv(e.added, R(e.n)) ELSE Zero])

\* C3: the installment that schedule_installment_flow places at
\* queue[offset] while month m is processed (offset = 1..installments) is the
\* amount popped as due in month m + offset: every pop of a receivable or
\* payable queue returns the installments placed for that month.
C3_InstallmentDueMonth ==
    md.pc \in {"month", "product", "fixed", "annual", "done"} =>
        \A k \in 1..Len(md.log) :
            md.log[k].kind = "pop" =>
                md.log[k].amount = DueByOffset(md.log[k].q, md.log[k].month)

\* Cash of the calls of one month on the queues in qs: what the pops
\* returned plus the immediate parts the scheduling calls returned
CashOf(ev, qs) ==
    RSum([k \in 1..Len(ev) |->
            IF ev[k].q \in qs
            THEN IF ev[k].kind = "pop" THEN ev[k].amount ELSE ev[k].immediate
            ELSE Zero])

\* Term installments the calls of one month added to queue q
AddedOf(ev, q) ==
    RSum([k \in 1..Len(ev) |->
            IF ev[k].q = q /\ ev[k].kind = "sched" THEN ev[k].added ELSE Zero])

\* C4: in every month each queue is popped exactly once, before anything of
\* that month is scheduled into it; the month's cash figures are the popped
\* amounts plus the immediate parts of the month's accruals; the term
\* installments scheduled in the month are all still pending when the month
\* ends; with every credit percent 0, "Receita Caixa" equals "Receita".
C4_PopBeforeSchedule ==
    (md.pc \in {"month", "annual"} /\ LastMonth >= 0) =>
        LET ev == EventsOf(LastMonth)
            row == md.rows_month[LastMonth + 1]
            products == 0..(Len(state.revenue) - 1)
        IN  /\ \A q \in EngineQueues :
                 /\ Cardinality({k \in 1..Len(ev) :
                                    ev[k].kind = "pop" /\ ev[k].q = q}) = 1
                 /\ \A j, k \in 1..Len(ev) :
                        (ev[j].q = q /\ ev[k].q = q
                         /\ ev[j].kind = "pop" /\ ev[k].kind = "sched") => j < k
                 /\ RLe(AddedOf(ev, q), RSum(QueueOf(md, q)))
            /\ row.ReceitaCaixa = CashOf(ev, products)
            /\ row.CFOperacional =
                 RSub(RSub(RSub(row.ReceitaCaixa, CashOf(ev, {VarQ})),
                           CashOf(ev, {FixQ})), row.Tributos)
            /\ (\A i \in 1..Len(state.revenue) : OrZero(state.revenue[i].prazo) = 0)
                 => row.ReceitaCaixa = row.Receita

\* A month in which a receivable queue returned installments of earlier
\* months and took new ones, so that cash and accrual revenue differ
C4_Witness ==
    /\ md.pc = "month"
    /\ LastMonth >= 2
    /\ LET ev == EventsOf(LastMonth)
       IN  \E j, k \in 1..Len(ev) :
              /\ ev[j].q = 0 /\ ev[j].kind = "pop" /\ ev[j].amount.n > 0
              /\ ev[k].q = 0 /\ ev[k].kind = "sched" /\ ev[k].added.n > 0
    /\ md.rows_month[LastMonth + 1].ReceitaCaixa # md.rows_month[LastMonth + 1].Receita

\* The positions of compute_monthly_details at which its queues exist
MdRunning == {"month", "product", "fixed", "annual", "done"}

\* The largest installment count of the scheduling calls that have put a
\* term amount into queue q so far
LargestCount(d, q) ==
    LET counts == {d.log[k].n : k \in {j \in 1..Len(d.log) :
                                          /\ d.log[j].kind = "sched"
                                          /\ d.log[j].q = q
                                          /\ RLt(Zero, d.log[j].added)}}
    IN  IF counts = {} THEN 0 ELSE CHOOSE n \in counts : \A o \in counts : o <= n

\* C24: across all months of one compute_monthly_details run every
\* installment queue is never empty, never shrinks, and is never longer than
\* 1 + the largest installment count scheduled into it.
C24_QueueBounded ==
    [][md'.pc \in MdRunning =>
          \A q \in EngineQueues :
              /\ Len(QueueOf(md', q)) >= 1
              /\ Len(QueueOf(md', q)) <= 1 + LargestCount(md', q)
              /\ md.pc \in MdRunning =>
                    Len(QueueOf(md', q)) >= Len(QueueOf(md, q))]_vars

\* In the second year the first product's receivable queue is as long as
\* its installment count plus one
C24_Witness ==
    /\ md.pc = "month"
    /\ md.m >= 12
    /\ state.revenue[1].prazo_parcelas.v >= 2
    /\ Len(QueueOf(md, 0)) = state.revenue[1].prazo_parcelas.v + 1
    /\ Len(md.fixed_payable_schedule) = 3

\* C25: after any number of months processed, with non-negative amounts, the
\* cash received so far for a product plus the amounts still pending in its
\* receivable queue equals the product's accrual revenue so far, and the
\* same balance holds for the variable and the fixed payable queue: the
\* pop / schedule sequence creates and loses no cash.
C25_CashConservation ==
    md.pc \in {"month", "annual", "done"} =>
        LET rows == md.rows_month
            accrued(i) ==
                RMul(variation,
                     RSum([m \in 1..Len(rows) |->
                             R(md.normalized_monthlies[i][m].price
                               * md.normalized_monthlies[i][m].qty)]))
            balance(q) == RAdd(CashOf(md.log, {q}), RSum(QueueOf(md, q)))
        IN  /\ \A i \in 1..Len(state.revenue) : balance(i - 1) = accrued(i)
            /\ balance(VarQ) = RSum([m \in 1..Len(rows) |-> rows[m].CustoVariavel])
            /\ balance(FixQ) = RSum([m \in 1..Len(rows) |-> rows[m].CustoFixo])
            /\ RAdd(RSum([m \in 1..Len(rows) |-> rows[m].ReceitaCaixa]),
                    RSum([i \in 1..Len(state.revenue) |-> RSum(QueueOf(md, i - 1))]))
                 = RSum([m \in 1..Len(rows) |-> rows[m].Receita])

\* A finished two-year run that ends with receivables and fixed payables
\* still pending
C25_Witness ==
    /\ md.pc = "done"
    /\ Len(md.rows_month) = 24
    /\ RLt(Zero, RSum(QueueOf(md, 0)))
    /\ RLt(Zero, RSum(QueueOf(md, FixQ)))
    /\ RLt(Zero, RSum(QueueOf(md, VarQ)))

\* C5: for every operating year y, the 12 monthly "Receita" values of year y
\* from compute_monthly_details add up to the "Receita" of year y from
\* compute_projections for the same variation.
C5_AnnualMonthlyRevenue ==
    (md.pc = "done" /\ proj.pc = "done") =>
        \A y \in 1..md.horizon :
            RSum([k \in 1..12 |-> md.rows_month[12 * (y - 1) + k].Receita])
                = proj.projections[y + 1].Receita

\* Both calls have returned for a two-year plan under variation 1.1 whose
\* monthly table makes the first year's revenue differ from the second's
C5_Witness ==
    /\ md.pc = "done"
    /\ proj.pc = "done"
    /\ variation = Rat(11, 10)
    /\ md.horizon = 2
    /\ proj.projections[2].Receita.n > 0
    /\ proj.projections[2].Receita # proj.projections[3].Receita

C16_InvestmentOutflows ==
    md.pc = "done" =>
        LET rows == md.rows_month
            invested == RSum([k \in 1..Len(state.investments) |->
                                R(state.investments[k].value.v)])
        IN  /\ RSum([k \in 1..Len(rows) |-> rows[k].CFInvestimento]) = RNeg(invested)
            /\ \A k \in 1..Len(state.investments) :
                 LET a == state.investments[k]
                 IN  /\ a.month.v < Len(rows)
                     /\ ~RLt(RNeg(R(a.value.v)), rows[a.month.v + 1].CFInvestimento)

\* C17: loan cash is charged exactly during the loan term.  The yearly loan
\* payment of compute_projections is the annuity payment in years
\* 1..termYears and 0 in year 0 and in later years; compute_monthly_details
\* records the loan amount as an inflow in month 0 and an outflow of
\* annuityPayment / 12 in every month below termYears * 12 and none
\* afterwards; the 12 monthly outflows of a year add up to that year's
\* annual loan payment.
C17_LoanTerm ==
    LET fin == state.financing
        amount == IF fin.amount.t = "num" THEN R(fin.amount.v) ELSE Zero
        rate == IF fin.rate.t = "num" THEN Rat(fin.rate.v, 100) ELSE Zero
        termYears == IF fin.years.t = "num" THEN fin.years.v ELSE 0
        annuityPayment == AnnuityPayment(amount, rate, termYears)
        inflow(m) == IF m = 0 THEN amount ELSE Zero
        outflow(m) == RSub(inflow(m), md.rows_month[m + 1].CFFinanceiro)
    IN  /\ proj.pc = "done" =>
             /\ proj.projections[1].PagamentoEmprestimo = Zero
             /\ \A t \in 1..(Len(proj.projections) - 1) :
                  proj.projections[t + 1].PagamentoEmprestimo =
                      (IF t <= termYears THEN annuityPayment ELSE Zero)
        /\ md.pc \in {"month", "product", "fixed", "annual", "done"} =>
             \A m \in 0..LastMonth :
                 outflow(m) = (IF m < termYears * 12
                               THEN RDiv(annuityPayment, R(12)) ELSE Zero)
        /\ md.pc = "done" =>
             \A y \in 1..md.horizon :
                 RSum([k \in 1..12 |-> outflow((y - 1) * 12 + k - 1)])
                     = proj.projections[y + 1].PagamentoEmprestimo

\* A two-year run of a one-year loan at 10%: 1320 is paid in year 1, in
\* twelve outflows of 110, and nothing in year 2
C17_Witness ==
    /\ md.pc = "done"
    /\ md.horizon = 2
    /\ state.financing.years = Num(1)
    /\ proj.projections[2].PagamentoEmprestimo = R(1320)
    /\ proj.projections[3].PagamentoEmprestimo = Zero
    /\ md.rows_month[1].CFFinanceiro = R(1200 - 110)
    /\ md.rows_month[12].CFFinanceiro = R(-110)
    /\ md.rows_month[13].CFFinanceiro = Zero

-----------------------------------------------------------------------------
(* SpecIrr: compute_irr applied to bounded cash-flow lists, one pass of its *)
(* Newton loop at a time.  The rate is an exact rational; a run whose rate  *)
(* leaves the magnitudes below is followed no further.                      *)

IrrMaxMagnitude == 20

IrrAmounts == {-20, -10, 0, 11, 22}

IrrFlows ==
    {<<>>, <<-1000, 300, 300, 300, 300>>}
        \cup UNION {[1..k -> IrrAmounts] : k \in 1..3}

IrrInRange(rate) == Abs(rate.n) <= IrrMaxMagnitude /\ rate.d <= IrrMaxMagnitude

InitIrr ==
    /\ state = EmptyPlan(Num(1))
    /\ variation = One
    /\ norm = NormIdle
    /\ sched = SchedIdle
    /\ md = MdIdle
    /\ proj = ProjIdle
    /\ tax = TaxIdle
    /\ metrics = MetricsIdle
    /\ be = BeIdle
    /\ ui = UiIdle
    /\ irr \in [pc : {"loop"}, cashflows : IrrFlows, rate : {IrrGuess},
                iter : {0}, result : {NoneV}]

\* One pass of "for _ in range(100)", or the return None after the last pass
IrrIterate ==
    /\ irr.pc = "loop"
    /\ ~(irr.iter < IrrIterations /\ IrrDividesByZero(irr.cashflows, irr.rate))
    /\ LET f == IrrF(irr.cashflows, irr.rate)
           df == IrrDf(irr.cashflows, irr.rate)
           new_rate == RSub(irr.rate, RDiv(f, df))
       IN  irr' =
             IF irr.iter >= IrrIterations \/ df = Zero
             THEN [irr EXCEPT !.pc = "returned", !.result = NoneV]
             ELSE IF RLt(RAbs(RSub(new_rate, irr.rate)), IrrTolerance)
             THEN [irr EXCEPT !.pc = "returned", !.result = Num(new_rate)]
             ELSE [irr EXCEPT !.rate = new_rate, !.iter = @ + 1,
                              !.pc = IF IrrInRange(new_rate) THEN "loop" ELSE "beyond"]
    /\ UNCHANGED <<state, variation, norm, sched, md, proj, tax, metrics, be, ui>>

\* A pass that divides by zero: the exception leaves compute_irr
IrrZeroDivision ==
    /\ irr.pc = "loop"
    /\ irr.iter < IrrIterations
    /\ IrrDividesByZero(irr.cashflows, irr.rate)
    /\ irr' = [irr EXCEPT !.pc = "raised"]
    /\ UNCHANGED <<state, variation, norm, sched, md, proj, tax, metrics, be, ui>>

NextIrr == IrrIterate \/ IrrZeroDivision

SpecIrr == InitIrr /\ [][NextIrr]_vars

\* No flow is positive, or no flow is negative
NoSignChange(cashflows) ==
    \/ \A k \in 1..Len(cashflows) : cashflows[k] <= 0
    \/ \A k \in 1..Len(cashflows) : cashflows[k] >= 0

\* C10: compute_irr never raises; what it returns is None or a rate at which
\* the NPV of the flows is zero to within a thousandth; it returns None when
\* the flows have no sign change; for [-1000, 300, 300, 300, 300] a returned
\* rate lies within 0.0001 of 0.0771.
C10_IrrResult ==
    /\ irr.pc # "raised"
    /\ irr.pc = "returned" =>
         /\ irr.result.t = "num" =>
              /\ RAdd(One, irr.result.v) # Zero
              /\ RLt(RAbs(compute_npv(irr.cashflows, irr.result.v)), Rat(1, 1000))
         /\ NoSignChange(irr.cashflows) => irr.result = NoneV
         /\ irr.cashflows = <<-1000, 300, 300, 300, 300>> =>
              /\ irr.result.t = "num"
              /\ RLt(RAbs(RSub(irr.result.v, Rat(771, 10000))), Rat(1, 10000))

-----------------------------------------------------------------------------
(* SpecMetrics: compute_npv, compute_mirr and compute_payback applied to   *)
(* bounded cash-flow lists and rates                                        *)

MaxFlows == 3

MetricAmounts == {-1000, -100, 0, 50, 400}

MetricFlows ==
    UNION {[1..k -> MetricAmounts] : k \in 0..MaxFlows}
        \cup {<<-1000, 400, 400, 400>>}

\* 0% .. 100% is what wizard_step7 passes; -100% is the rate at which
\* 1 + rate = 0
MetricRates == {R(-1), Zero, Rat(1, 10), One}

InitMetrics ==
    /\ state = EmptyPlan(Num(1))
    /\ variation = One
    /\ norm = NormIdle
    /\ sched = SchedIdle
    /\ md = MdIdle
    /\ proj = ProjIdle
    /\ tax = TaxIdle
    /\ irr = IrrIdle
    /\ be = BeIdle
    /\ ui = UiIdle
    /\ metrics \in [pc : {"ready"}, fn : {"none"}, cashflows : MetricFlows,
                    discount_rate : MetricRates, reinvest_rate : MetricRates,
                    result : {NoneV}]

\* compute_npv(cashflows, discount_rate)
NpvCall ==
    /\ metrics.pc = "ready"
    /\ metrics' =
         IF NpvRaises(metrics.cashflows, metrics.discount_rate)
         THEN [metrics EXCEPT !.pc = "raised", !.fn = "npv"]
         ELSE [metrics EXCEPT !.pc = "done", !.fn = "npv",
                 !.result = compute_npv(metrics.cashflows, metrics.discount_rate)]
    /\ UNCHANGED <<state, variation, norm, sched, md, proj, tax, irr, be, ui>>

\* compute_mirr(cashflows, finance_rate = discount_rate, reinvest_rate)
MirrCall ==
    /\ metrics.pc = "ready"
    /\ metrics' =
         IF MirrRaises(metrics.cashflows, metrics.discount_rate)
         THEN [metrics EXCEPT !.pc = "raised", !.fn = "mirr"]
         ELSE [metrics EXCEPT !.pc = "done", !.fn = "mirr",
                 !.result = compute_mirr(metrics.cashflows, metrics.discount_rate,
                                         metrics.reinvest_rate)]
    /\ UNCHANGED <<state, variation, norm, sched, md, proj, tax, irr, be, ui>>

\* compute_payback(cashflows, discount_rate)
PaybackCall ==
    /\ metrics.pc = "ready"
    /\ metrics' =
         IF PaybackRaises(metrics.cashflows, metrics.discount_rate)
         THEN [metrics EXCEPT !.pc = "raised", !.fn = "payback"]
         ELSE [metrics EXCEPT !.pc = "done", !.fn = "payback",
                 !.result = compute_payback(metrics.cashflows, metrics.discount_rate)]
    /\ UNCHANGED <<state, variation, norm, sched, md, proj, tax, irr, be, ui>>

NextMetrics == NpvCall \/ MirrCall \/ PaybackCall

SpecMetrics == InitMetrics /\ [][NextMetrics]_vars

\* C11: compute_mirr returns None whenever the flows hold no negative flow
\* and whenever they hold no positive flow; otherwise it returns
\* (FV of the positive flows / -PV of the negative flows) ^ (1/n) - 1 with n
\* the last period index.
C11_MirrResult ==
    (metrics.fn = "mirr" /\ metrics.pc = "done") =>
        LET cf == metrics.cashflows
            n == Len(cf) - 1
            no_negative == \A k \in 1..Len(cf) : cf[k] >= 0
            no_positive == \A k \in 1..Len(cf) : cf[k] <= 0
        IN  IF no_negative \/ no_positive
            THEN metrics.result = NoneV
            ELSE /\ metrics.result.t = "root"
                 /\ metrics.result.n = n
                 /\ RMul(metrics.result.base,
                         RNeg(MirrPvNeg(cf, metrics.discount_rate)))
                      = MirrFvPos(cf, metrics.reinvest_rate)

\* C12: compute_npv never fails, whatever the flows and the rate; it returns
\* the sum over t of flow_t / (1 + rate)^t, which at rate 0 is the plain sum
\* of the flows.
C12_NpvTotal ==
    metrics.fn = "npv" =>
        /\ metrics.pc = "done"
        /\ LET cf == metrics.cashflows
               r == metrics.discount_rate
           IN  /\ RMul(metrics.result, RPow(RAdd(One, r), Len(cf)))
                    = RSum([k \in 1..Len(cf) |->
                              RMul(R(cf[k]), RPow(RAdd(One, r), Len(cf) - k + 1))])
               /\ r = Zero => metrics.result = RSum([k \in 1..Len(cf) |-> R(cf[k])])

\* C13: compute_payback returns, for the raw and for the discounted flows,
\* the smallest period index t at which the running sum of flows 0..t is
\* >= 0, and None when no running sum reaches 0; [-1000, 400, 400, 400]
\* has simple payback 3.
C13_Payback ==
    (metrics.fn = "payback" /\ metrics.pc = "done") =>
        LET cf == metrics.cashflows
            r == metrics.discount_rate
            raw(t) == RSum([k \in 1..(t + 1) |-> R(cf[k])])
            disc(t) == RSum([k \in 1..(t + 1) |->
                               RDiv(R(cf[k]), RPow(RAdd(One, r), k - 1))])
            First(res, sum(_)) ==
                IF res = NoneV
                THEN \A t \in 0..(Len(cf) - 1) : RLt(sum(t), Zero)
                ELSE /\ res.t = "num"
                     /\ res.v \in 0..(Len(cf) - 1)
                     /\ RLe(Zero, sum(res.v))
                     /\ \A t \in 0..(res.v - 1) : RLt(sum(t), Zero)
        IN  /\ First(metrics.result.payback, raw)
            /\ First(metrics.result.discounted_payback, disc)
            /\ cf = <<-1000, 400, 400, 400>> => metrics.result.payback = Num(3)

\* The seed flows paid back in period 3 on the raw sums, while the sums
\* discounted at 10% never reach 0
C13_Witness ==
    /\ metrics.fn = "payback"
    /\ metrics.pc = "done"
    /\ metrics.cashflows = <<-1000, 400, 400, 400>>
    /\ metrics.discount_rate = Rat(1, 10)
    /\ metrics.result.payback = Num(3)
    /\ metrics.result.discounted_payback = NoneV

\* C30: for a discount rate >= 0, whenever compute_payback returns a
\* discounted payback period it also returns a simple payback period, and
\* the simple period is not later than the discounted one.
C30_PaybackOrder ==
    (/\ metrics.fn = "payback"
     /\ metrics.pc = "done"
     /\ RLe(Zero, metrics.discount_rate)
     /\ metrics.result.discounted_payback.t = "num") =>
        /\ metrics.result.payback.t = "num"
        /\ metrics.result.payback.v <= metrics.result.discounted_payback.v

\* An outlay recovered in period 1 on the raw and on the sums discounted at
\* 10%, followed by a loss
C30_Witness ==
    /\ metrics.fn = "payback"
    /\ metrics.pc = "done"
    /\ metrics.cashflows = <<-100, 400, -1000>>
    /\ metrics.discount_rate = Rat(1, 10)
    /\ metrics.result.payback = Num(1)
    /\ metrics.result.discounted_payback = Num(1)

-----------------------------------------------------------------------------
(* SpecBreakEven: wizard_step7 calls compute_projections and then          *)
(* compute_break_even on one plan                                           *)

\* Plans for the break-even analysis
\*   0..3: the engine's plans, sold for cash
\*   4: a product that sells nothing, with fixed costs
\*   5: a product whose unit costs exceed its price, with fixed costs
\*   6: no product, with fixed costs
\*   7: two products under Simples Annex III, with fixed costs
BePlan(h, kind) ==
    LET fixed == <<FixedItem(Num(300), Num(0), Num(1))>>
        idle == [EmptyPlan(h) EXCEPT
                   !.revenue = <<Product(Num(10), Num(0), Num(0), Num(1))>>,
                   !.fixed_costs.op = fixed]
        loss == [EmptyPlan(h) EXCEPT
                   !.revenue = <<Product(Num(10), Num(100), Num(0), Num(1))>>,
                   !.costs = <<<<CostItem(Num(3), Num(5), Num(0), Absent, Num(1))>>>>,
                   !.fixed_costs.op = fixed]
        empty == [EmptyPlan(h) EXCEPT !.fixed_costs.op = fixed]
        taxed == [EmptyPlan(h) EXCEPT
                    !.revenue = <<Product(Num(10), Num(100), Num(0), Num(1)),
                                  Product(Num(40), Num(25), Num(0), Num(1))>>,
                    !.costs = <<<<CostItem(Num(1), Num(4), Num(0), Absent, Num(1))>>>>,
                    !.fixed_expenses.sales = fixed,
                    !.calculate_tax = TRUE,
                    !.tax_annex = "III"]
    IN  CASE kind \in 0..3 -> EnginePlan(h, 0, 1, kind)
          [] kind = 4 -> idle
          [] kind = 5 -> loss
          [] kind = 6 -> empty
          [] kind = 7 -> taxed

BePlans == {BePlan(Num(h), kind) : h \in 0..MaxHorizon, kind \in 0..7}

InitBreakEven ==
    /\ state \in BePlans
    /\ variation \in {One, Rat(11, 10), Rat(1, 2)}
    /\ norm = NormIdle
    /\ sched = SchedIdle
    /\ md = MdIdle
    /\ proj = [pc |-> "ready"]
    /\ tax = TaxIdle
    /\ irr = IrrIdle
    /\ metrics = MetricsIdle
    /\ be = [pc |-> "ready"]
    /\ ui = UiIdle

\* be = compute_break_even(st.session_state, variation_factor)
BreakEvenCall ==
    /\ proj.pc = "done"
    /\ be.pc = "ready"
    /\ be' = IF BeRaises(state) THEN [pc |-> "raised"]
             ELSE [pc |-> "done", result |-> compute_break_even(state, variation)]
    /\ UNCHANGED <<state, variation, norm, sched, md, proj, tax, irr, metrics, ui>>

NextBreakEven == ProjCall \/ BreakEvenCall

SpecBreakEven == InitBreakEven /\ [][NextBreakEven]_vars

\* C14: the break-even revenue is fixedCosts / mcPercent exactly when
\* mcPercent > 0, so that breakEvenRevenue * mcPercent is the year-1 fixed
\* cost, and None otherwise; mcPercent = (revenue - variableCost - tax) /
\* revenue, and 0 when revenue <= 0.
C14_BreakEvenRevenue ==
    (be.pc = "done" /\ proj.pc = "done") =>
        LET year1 == proj.projections[2]
            margin == RSub(RSub(year1.Receita, year1.Custos), year1.Tributos)
            positive == RLt(Zero, year1.Receita) /\ RLt(Zero, margin)
        IN  /\ be.result.fixed_costs = year1.CustosFixos
            /\ RMul(be.result.mc_percent, year1.Receita) =
                 (IF RLt(Zero, year1.Receita) THEN margin ELSE Zero)
            /\ ~RLt(Zero, year1.Receita) => be.result.mc_percent = Zero
            /\ positive <=> be.result.revenue_be.t = "num"
            /\ positive =>
                 /\ be.result.revenue_be.t = "num"
                 /\ RMul(be.result.revenue_be.v, be.result.mc_percent)
                      = year1.CustosFixos

\* A taxed plan with a positive margin and fixed costs: its break-even
\* revenue is a positive number
C14_Witness ==
    /\ be.pc = "done"
    /\ proj.pc = "done"
    /\ proj.projections[2].Tributos.n > 0
    /\ proj.projections[2].CustosFixos.n > 0
    /\ be.result.revenue_be.t = "num"
    /\ be.result.revenue_be.v.n > 0

\* C15: each product's share is its year-1 revenue over the total year-1
\* revenue and its break-even revenue is share * consolidated break-even
\* revenue; whenever the consolidated break-even revenue is defined the
\* shares add up to 1 and the per-product break-even revenues add up to it;
\* the total year-1 revenue used for the shares is compute_projections'
\* year-1 revenue.
C15_BreakdownShares ==
    (be.pc = "done" /\ proj.pc = "done") =>
        LET rows == be.result.product_breakdown
            total == be.result.total_revenue_y1
            monthly(i) == normalize_monthly_series(state, i - 1, state.horizon)
            rev(i) == RMul(variation,
                           RSum([m \in 1..12 |->
                                   R(monthly(i)[m].price * monthly(i)[m].qty)]))
        IN  /\ Len(rows) = Len(state.revenue)
            /\ total = proj.projections[2].Receita
            /\ \A i \in 1..Len(rows) :
                 /\ RMul(rows[i].share, total) = (IF RLt(Zero, total) THEN rev(i) ELSE Zero)
                 /\ be.result.revenue_be.t = "num" =>
                      rows[i].revenue_be = RMul(rows[i].share, be.result.revenue_be.v)
            /\ be.result.revenue_be.t = "num" =>
                 /\ RSum([i \in 1..Len(rows) |-> rows[i].share]) = One
                 /\ RSum([i \in 1..Len(rows) |-> rows[i].revenue_be])
                      = be.result.revenue_be.v

\* Two products with different shares under variation 1.1 and a defined
\* break-even revenue
C15_Witness ==
    /\ be.pc = "done"
    /\ proj.pc = "done"
    /\ variation = Rat(11, 10)
    /\ be.result.revenue_be.t = "num"
    /\ Len(be.result.product_breakdown) = 2
    /\ be.result.product_breakdown[1].share # be.result.product_breakdown[2].share
    /\ be.result.product_breakdown[2].revenue_be.n > 0

\* The year-1 quantity of product i (from 1) that compute_break_even adds up
BeYearQty(i) ==
    RMul(variation,
         RSum([m \in 1..12 |->
                 R(normalize_monthly_series(state, i - 1, state.horizon)[m].qty)]))

\* C29: when every product has a positive year-1 quantity, the per-product
\* total margins (average price - cost_unit - var_unit) * quantity add up
\* to the consolidated contribution margin plus the year-1 tax, so to the
\* consolidated margin itself when no tax is charged.
C29_MarginSum ==
    (be.pc = "done" /\ proj.pc = "done"
        /\ \A i \in 1..Len(state.revenue) : RLt(Zero, BeYearQty(i))) =>
        LET rows == be.result.product_breakdown
            year1 == proj.projections[2]
            total == RSum([i \in 1..Len(rows) |-> rows[i].mc_total])
        IN  /\ \A i \in 1..Len(rows) :
                 rows[i].mc_total =
                     RMul(RSub(rows[i].price, RAdd(rows[i].cost_unit, rows[i].var_unit)),
                          BeYearQty(i))
            /\ total = RAdd(be.result.mc, year1.Tributos)
            /\ year1.Tributos = Zero => total = be.result.mc

\* Two products sold in year 1 under a tax that is charged
C29_Witness ==
    /\ be.pc = "done"
    /\ proj.pc = "done"
    /\ Len(state.revenue) = 2
    /\ \A i \in 1..Len(state.revenue) : RLt(Zero, BeYearQty(i))
    /\ proj.projections[2].Tributos.n > 0
    /\ be.result.product_breakdown[1].mc_total.n > 0
    /\ be.result.product_breakdown[2].mc_total.n > 0

-----------------------------------------------------------------------------
(* SpecMalformed: wizard_step7's three engine calls on a plan loaded from a *)
(* project file, in which one numeric field of one record is null or is    *)
(* missing.                                                                *)

\* The record and field that is damaged, and how
\*   0: nothing            1: cost qty null        2: cost unit missing
\*   3: variable-expense unit null                 4: fixed value null
\*   5: fixed value missing  6: investment value null
\*   7: investment value missing
MalformedKinds == 0..7

MalformedPlan(h, prazo, kind) ==
    LET base == [EnginePlan(h, prazo, 1, 1) EXCEPT
                   !.investments = <<Asset(Num(700), Num(1))>>]
    IN  CASE kind = 0 -> base
          [] kind = 1 -> [base EXCEPT !.costs[1][1].qty = NoneV]
          [] kind = 2 -> [base EXCEPT !.costs[1][1].unit = Absent]
          [] kind = 3 -> [base EXCEPT !.variable_expenses[2][1].unit = NoneV]
          [] kind = 4 -> [base EXCEPT !.fixed_costs.op[1].value = NoneV]
          [] kind = 5 -> [base EXCEPT !.fixed_costs.op[1].value = Absent]
          [] kind = 6 -> [base EXCEPT !.investments[1].value = NoneV]
          [] kind = 7 -> [base EXCEPT !.investments[1].value = Absent]

MalformedPlans ==
    {MalformedPlan(Num(h), prazo, kind) :
        h \in 1..MaxHorizon, prazo \in EnginePcts, kind \in MalformedKinds}

\* The plan with every null or missing numeric field of its cost,
\* variable-expense, fixed and investment records set to 0
ZeroField(x) == IF x.t = "num" THEN x ELSE Num(0)

ZeroItems(items) ==
    [k \in 1..Len(items) |->
        [items[k] EXCEPT !.qty = ZeroField(@), !.unit = ZeroField(@)]]

ZeroValues(items) ==
    [k \in 1..Len(items) |-> [items[k] EXCEPT !.value = ZeroField(@)]]

ZeroFilled(st) ==
    [st EXCEPT
       !.costs = [i \in 1..Len(st.costs) |-> ZeroItems(st.costs[i])],
       !.variable_expenses =
           [i \in 1..Len(st.variable_expenses) |-> ZeroItems(st.variable_expenses[i])],
       !.fixed_costs = [c \in DOMAIN st.fixed_costs |-> ZeroValues(st.fixed_costs[c])],
       !.fixed_expenses =
           [c \in DOMAIN st.fixed_expenses |-> ZeroValues(st.fixed_expenses[c])],
       !.investments = ZeroValues(st.investments)]

InitMalformed ==
    /\ state \in MalformedPlans
    /\ variation \in {One, Rat(11, 10)}
    /\ norm = NormIdle
    /\ sched = SchedIdle
    /\ md = [pc |-> "ready"]
    /\ proj = [pc |-> "ready"]
    /\ tax = TaxIdle
    /\ irr = IrrIdle
    /\ metrics = MetricsIdle
    /\ be = [pc |-> "ready"]
    /\ ui = UiIdle

\* wizard_step7 calls compute_monthly_details once compute_break_even has
\* returned
DetailsAfterBreakEven ==
    /\ be.pc = "done"
    /\ MdStart

NextMalformed ==
    \/ ProjCall
    \/ BreakEvenCall
    \/ DetailsAfterBreakEven
    \/ MonthBegin
    \/ ProductStep
    \/ MonthEnd
    \/ MdFinish

SpecMalformed == InitMalformed /\ [][NextMalformed]_vars

\* C18: nothing in the engine is fatal: a cost, variable-expense, fixed or
\* investment record whose numeric field is missing or null contributes 0
\* for that field, and compute_projections, compute_monthly_details and
\* compute_break_even all complete and return their results instead of
\* raising.
C18_NothingFatal ==
    /\ md.pc # "raised"
    /\ be.pc # "raised"
    /\ proj.pc = "done" =>
         proj.projections = compute_projections(ZeroFilled(state), variation).projections
    /\ be.pc = "done" =>
         be.result = compute_break_even(ZeroFilled(state), variation)
    /\ md.pc \in {"month", "product", "fixed", "annual", "done"} =>
         /\ md.cost_per_unit_list =
              [i \in 1..Len(state.revenue) |->
                  UnitCostFloat(ItemsOf(ZeroFilled(state).costs, i - 1))]
         /\ md.fixed_expenses_total_monthly = FixedMonthFloat(ZeroFilled(state))
         /\ md.investments_monthly =
              InvestmentsMonthly(ZeroFilled(state), md.months_total)

-----------------------------------------------------------------------------
(* SpecRerun: Streamlit runs wizard_step7 again on every interaction, so   *)
(* the engine is called again on the same session state; md.call counts    *)
(* the calls of compute_monthly_details and md.previous holds the tables   *)
(* the call before returned.                                               *)

MaxCalls == 2

\* The script is run again once compute_monthly_details has returned
Rerun ==
    /\ md.pc = "done"
    /\ md.call < MaxCalls
    /\ md' = [md EXCEPT !.pc = "ready"]
    /\ proj' = [pc |-> "ready"]
    /\ UNCHANGED <<state, variation, norm, sched, tax, irr, metrics, be, ui>>

NextRerun == NextEngine \/ Rerun

SpecRerun == InitEngine /\ [][NextRerun]_vars

-----------------------------------------------------------------------------
(* SpecZeroCredit: the engine calls of SpecEngine on plans in which every  *)
(* sale, cost and fixed item is settled in the month it accrues.           *)

\* The plan with every credit percent set to 0
ZeroCreditItems(items) ==
    [k \in 1..Len(items) |->
        [items[k] EXCEPT !.prazo_pct = Num(0), !.term = Num(0)]]

ZeroCreditFixed(items) ==
    [k \in 1..Len(items) |-> [items[k] EXCEPT !.prazo_pct = Num(0)]]

ZeroCredit(st) ==
    [st EXCEPT
       !.revenue = [i \in 1..Len(st.revenue) |-> [st.revenue[i] EXCEPT !.prazo = Num(0)]],
       !.costs = [i \in 1..Len(st.costs) |-> ZeroCreditItems(st.costs[i])],
       !.variable_expenses =
           [i \in 1..Len(st.variable_expenses) |-> ZeroCreditItems(st.variable_expenses[i])],
       !.fixed_costs = [c \in DOMAIN st.fixed_costs |-> ZeroCreditFixed(st.fixed_costs[c])],
       !.fixed_expenses =
           [c \in DOMAIN st.fixed_expenses |-> ZeroCreditFixed(st.fixed_expenses[c])]]

ZeroCreditPlans == {ZeroCredit(st) : st \in EnginePlans}

InitZeroCredit ==
    /\ state \in ZeroCreditPlans
    /\ variation \in {One, Rat(11, 10)}
    /\ norm = NormIdle
    /\ sched = SchedIdle
    /\ md = [pc |-> "ready"]
    /\ proj = [pc |-> "ready"]
    /\ tax = TaxIdle
    /\ irr = IrrIdle
    /\ metrics = MetricsIdle
    /\ be = BeIdle
    /\ ui = UiIdle

SpecZeroCredit == InitZeroCredit /\ [][NextEngine]_vars

\* C26: for every plan in which every credit percent is 0, the "CF Total"
\* of all months of compute_monthly_details adds up to the sum of the
\* cashflows series of compute_projections for the same variation.
C26_CashTotalsAgree ==
    (md.pc = "done" /\ proj.pc = "done" /\ state = ZeroCredit(state)) =>
        RSum([m \in 1..Len(md.rows_month) |-> md.rows_month[m].CFTotal])
            = RSum(proj.cashflows)

-----------------------------------------------------------------------------
(* Saving the project to JSON and loading it back (wizard_step1) *)

\* str(i) of a product index, the text json.dumps writes for an integer key
KeyText(i) == <<"0", "1", "2", "3", "4", "5", "6", "7", "8", "9">>[i + 1]

\* A dictionary key: the integer i, or the string with the given text
IntKey(i) == [kind |-> "int", text |-> KeyText(i)]

StrKey(text) == [kind |-> "str", text |-> text]

\* The members of a dictionary the wizard keys by product index
\* (costs[i], variable_expenses[i], revenue_monthly[i])
Members(dict) ==
    [k \in 1..Len(dict) |-> [key |-> IntKey(k - 1), value |-> dict[k]]]

\* json.dumps of a dictionary: every key is written as a string, an integer
\* key as its decimal text
JsonDumps(members) ==
    [k \in 1..Len(members) |->
        [key |-> StrKey(members[k].key.text), value |-> members[k].value]]

\* json.loads of an object: every key read is a string
JsonLoads(object) ==
    [k \in 1..Len(object) |->
        [key |-> StrKey(object[k].key.text), value |-> object[k].value]]

\* dict.get(i, []) with the integer i: a string key never equals an integer
DictGet(members, key, default) ==
    IF \E k \in 1..Len(members) : members[k].key = key
    THEN members[CHOOSE k \in 1..Len(members) : members[k].key = key].value
    ELSE default

\* The dictionary as the engine reads it, by the product indices 0..n-1
ByIndex(members) ==
    [k \in 1..Len(members) |-> DictGet(members, IntKey(k - 1), <<>>)]

\* save_data of wizard_step1 written by json.dumps: "financing" is not one
\* of its keys
SaveData(st) ==
    [horizon |-> st.horizon,
     revenue |-> st.revenue,
     revenue_monthly |-> JsonDumps(Members(st.revenue_monthly)),
     costs |-> JsonDumps(Members(st.costs)),
     variable_expenses |-> JsonDumps(Members(st.variable_expenses)),
     fixed_expenses |-> st.fixed_expenses,
     fixed_costs |-> st.fixed_costs,
     investments |-> st.investments,
     calculate_tax |-> st.calculate_tax,
     tax_annex |-> st.tax_annex]

\* for k, v in loaded.items(): st.session_state[k] = v
LoadInto(session, file) ==
    [session EXCEPT
       !.horizon = file.horizon,
       !.revenue = file.revenue,
       !.revenue_monthly = ByIndex(JsonLoads(file.revenue_monthly)),
       !.costs = ByIndex(JsonLoads(file.costs)),
       !.variable_expenses = ByIndex(JsonLoads(file.variable_expenses)),
       !.fixed_expenses = file.fixed_expenses,
       !.fixed_costs = file.fixed_costs,
       !.investments = file.investments,
       !.calculate_tax = file.calculate_tax,
       !.tax_annex = file.tax_annex]

\* The session init_state builds when the application is opened anew
FreshSession == EmptyPlan(Num(3))

JsonPcts == {0, 50}

JsonPlans ==
    {EnginePlan(Num(h), prazo, 1, bundle) :
        h \in 1..MaxHorizon, prazo \in JsonPcts, bundle \in 0..3}

InitJson ==
    /\ state \in JsonPlans
    /\ variation \in {One, Rat(11, 10)}
    /\ norm = NormIdle
    /\ sched = SchedIdle
    /\ md = [pc |-> "ready"]
    /\ proj = [pc |-> "ready"]
    /\ tax = TaxIdle
    /\ irr = IrrIdle
    /\ metrics = MetricsIdle
    /\ be = BeIdle
    /\ ui = [pc |-> "session"]

\* The download button of wizard_step1, pressed once the results were shown
SaveProject ==
    /\ ui.pc = "session"
    /\ md.pc = "done"
    /\ proj.pc = "done"
    /\ ui' = [pc |-> "saved", file |-> SaveData(state),
              before |-> [projections |-> proj.projections,
                          cashflows |-> proj.cashflows]]
    /\ UNCHANGED <<state, variation, norm, sched, md, proj, tax, irr, metrics, be>>

\* The file uploader of wizard_step1 in the session that saved the file,
\* then safe_rerun()
LoadProject ==
    /\ ui.pc = "saved"
    /\ state' = LoadInto(state, ui.file)
    /\ ui' = [ui EXCEPT !.pc = "loaded"]
    /\ md' = [md EXCEPT !.pc = "ready"]
    /\ proj' = [pc |-> "ready"]
    /\ UNCHANGED <<variation, norm, sched, tax, irr, metrics, be>>

\* The file uploader of wizard_step1 in a session opened anew
LoadProjectFresh ==
    /\ ui.pc = "saved"
    /\ state' = LoadInto(FreshSession, ui.file)
    /\ ui' = [ui EXCEPT !.pc = "loaded"]
    /\ md' = [md EXCEPT !.pc = "ready"]
    /\ proj' = [pc |-> "ready"]
    /\ UNCHANGED <<variation, norm, sched, tax, irr, metrics, be>>

NextJson == NextEngine \/ SaveProject \/ LoadProject \/ LoadProjectFresh

SpecJson == InitJson /\ [][NextJson]_vars

\* C27: a plan saved to JSON and loaded back gives, for every variation,
\* the projections, the cashflows and the monthly and annual detail rows it
\* gave before it was saved.
C27_RoundTrip ==
    (ui.pc = "loaded" /\ md.pc = "done" /\ proj.pc = "done") =>
        /\ proj.projections = ui.before.projections
        /\ proj.cashflows = ui.before.cashflows
        /\ md.rows_month = md.previous[1]
        /\ md.rows_annual = md.previous[2]

-----------------------------------------------------------------------------
(* The wizard: main, the sidebar and the navigation buttons of the steps *)

Planning == "Planejamento financeiro"

Governance == "Avaliação de governança corporativa (startups)"

\* The dispatch of main on session step: 6 and 7 both show the results
DispatchFinancing(step) ==
    CASE step = 1 -> "wizard_step1"
      [] step = 2 -> "wizard_step2"
      [] step = 3 -> "wizard_step3"
      [] step = 4 -> "wizard_step4"
      [] step = 5 -> "wizard_step5"
      [] step = 6 -> "wizard_step6"
      [] step = 7 -> "wizard_step7"
      [] OTHER -> "none"

Dispatch(step) ==
    CASE step = 1 -> "wizard_step1"
      [] step = 2 -> "wizard_step2"
      [] step = 3 -> "wizard_step3"
      [] step = 4 -> "wizard_step4"
      [] step = 5 -> "wizard_step5"
      [] step \in {6, 7} -> "wizard_step7"
      [] OTHER -> "none"

\* The screen main renders for the session's view, module and step
Screen(view, module, step) ==
    IF view = "home" THEN "home"
    ELSE IF module = Planning THEN Dispatch(step)
    ELSE "governance"

\* wizard_step6 stores the values of its three number inputs, which start
\* at the stored terms or 0.0
FinancingForm(financing) ==
    [amount |-> Num(FloatGet(financing.amount)),
     rate |-> Num(FloatGet(financing.rate)),
     years |-> Num(FloatGet(financing.years))]

\* The plan after one run of the script: only wizard_step6 writes while it
\* renders
PlanAfterRun(plan, screen) ==
    IF screen = "wizard_step6"
    THEN [plan EXCEPT !.financing = FinancingForm(plan.financing)]
    ELSE plan

\* One run of main after a handler left the session with these values
Run(plan, view, module, step) ==
    LET screen == Screen(view, module, step)
        after == PlanAfterRun(plan, screen)
    IN  [plan |-> after,
         ui |-> [pc |-> "wizard", view |-> view, module |-> module, step |-> step,
                 screen |-> screen]]

\* init_state, then the first run of main
InitWizard ==
    /\ state = Run(EmptyPlan(Num(3)), "home", Planning, 1).plan
    /\ ui = Run(EmptyPlan(Num(3)), "home", Planning, 1).ui
    /\ variation = One
    /\ norm = NormIdle
    /\ sched = SchedIdle
    /\ md = MdIdle
    /\ proj = ProjIdle
    /\ tax = TaxIdle
    /\ irr = IrrIdle
    /\ metrics = MetricsIdle
    /\ be = BeIdle

\* The session is left with these values and safe_rerun() runs main again
Rerender(plan, view, module, step) ==
    /\ state' = Run(plan, view, module, step).plan
    /\ ui' = Run(plan, view, module, step).ui
    /\ UNCHANGED <<variation, norm, sched, md, proj, tax, irr, metrics, be>>

\* The two buttons of render_home_screen
OpenModule ==
    /\ ui.screen = "home"
    /\ \E module_name \in {Planning, Governance} :
          Rerender(state, "module", module_name, ui.step)

\* "Trocar fluxo" of the sidebar and of the governance screen
GoToHome ==
    /\ ui.screen # "home"
    /\ Rerender(state, "home", ui.module, ui.step)

\* The step buttons of render_planning_sidebar: idx runs over 1..6
SidebarStep ==
    /\ ui.view = "module"
    /\ ui.module = Planning
    /\ \E idx \in 1..6 : Rerender(state, ui.view, ui.module, idx)

\* "Próximo" of wizard_step1 stores the form and goes to step 2
Next1 ==
    /\ ui.screen = "wizard_step1"
    /\ \E horizon \in 1..MaxHorizon, calc_tax \in BOOLEAN :
          Rerender([state EXCEPT !.horizon = Num(horizon), !.calculate_tax = calc_tax],
                   ui.view, ui.module, 2)

\* The step a screen's "Voltar" button sets; 0 where there is none
BackTarget(screen) ==
    CASE screen = "wizard_step2" -> 1
      [] screen = "wizard_step3" -> 2
      [] screen = "wizard_step4" -> 3
      [] screen = "wizard_step5" -> 4
      [] screen = "wizard_step6" -> 5
      [] screen = "wizard_step7" -> 5
      [] OTHER -> 0

\* The step a screen's "Próximo" button sets (wizard_step1 has Next1)
NextTarget(screen) ==
    CASE screen = "wizard_step2" -> 3
      [] screen = "wizard_step3" -> 4
      [] screen = "wizard_step4" -> 5
      [] screen = "wizard_step5" -> 6
      [] screen = "wizard_step6" -> 7
      [] OTHER -> 0

Back ==
    /\ BackTarget(ui.screen) # 0
    /\ Rerender(state, ui.view, ui.module, BackTarget(ui.screen))

NextStep ==
    /\ NextTarget(ui.screen) # 0
    /\ Rerender(state, ui.view, ui.module, NextTarget(ui.screen))

MaxAdded == 1

\* "+ Adicionar Produto/Serviço" of wizard_step2
AddProduct ==
    /\ ui.screen = "wizard_step2"
    /\ Len(state.revenue) < MaxAdded
    /\ Rerender([state EXCEPT
                   !.revenue = Append(@, Product(Num(0), Num(0), Num(0), Num(1)))],
                ui.view, ui.module, ui.step)

\* "+ Adicionar Ativo" of wizard_step5
AddAsset ==
    /\ ui.screen = "wizard_step5"
    /\ Len(state.investments) < MaxAdded
    /\ Rerender([state EXCEPT !.investments = Append(@, Asset(Num(0), Num(0)))],
                ui.view, ui.module, ui.step)

\* "Reiniciar" of the results screen: every key deleted, then init_state
Restart ==
    /\ ui.screen = "wizard_step7"
    /\ Rerender(EmptyPlan(Num(3)), "home", Planning, 1)

NextWizard ==
    \/ OpenModule
    \/ GoToHome
    \/ SidebarStep
    \/ Next1
    \/ Back
    \/ NextStep
    \/ AddProduct
    \/ AddAsset
    \/ Restart

SpecWizard == InitWizard /\ [][NextWizard]_vars

=============================================================================
